---- MODULE Spec2Model ----
(***************************************************************************)
(* agent-karma: the resumable multi-chain event indexers (x402 payment     *)
(* scanner, ERC-8004 identity and reputation scanners), the compute-unit   *)
(* budget governor they poll, and the relational store they write.         *)
(*                                                                         *)
(* A process is one invocation of an indexer program for one chain         *)
(* (`indexer:x402 -- --chain base`, `indexer:erc8004 -- --chain arbitrum`).*)
(* Processes do not share memory; they share the store.  One action is one *)
(* awaited step of a process: an RPC call with its retries, or one SQL     *)
(* statement.  Timestamps (first_seen_at, last_seen_at, updated_at) are    *)
(* not modelled.                                                           *)
(*                                                                         *)
(* The trust score engine (`npm run score`) is modelled twice: its pure    *)
(* shapers and computeScore in fixed point (thousandths of a point), and   *)
(* its main() as a process over the same store, one action per SQL         *)
(* statement.                                                              *)
(***************************************************************************)
EXTENDS Integers, Sequences, FiniteSets, TLC

\* ------------------------------------------------------------------------
\* Bounds of the model
\* ------------------------------------------------------------------------
InitHead == 13
HeadStep == 11
MaxRuns == 3
LimitN == 5
MaxFaults == 1
MaxInterrupts == 1
BudgetScale == 200000
MaxRecorded == 3
MaxTx == 3
MaxCp == 3
MaxDays == 95
ScoreBatchScale == 250
MaxPasses == 2

\* ------------------------------------------------------------------------
\* Program constants
\* ------------------------------------------------------------------------
BATCH_SIZE == 10
\* 30_000_000 in the source; divided by BudgetScale so that the 80% and 90%
\* thresholds are crossed within a handful of batches.
MONTHLY_CU_BUDGET == 30000000 \div BudgetScale
BASE_BLOCKS_PER_DAY == 43200
ARB_BLOCKS_PER_DAY == 345600
MaxRetries == 3
MaxRestarts == 5

MaxHead == InitHead + HeadStep
ArbHead == InitHead + 7

NoLimit == -1
NoId == -1
NoBlock == -1

Chains == {"base", "arbitrum"}
Procs == {"x402_base", "erc_base", "erc_arb"}
Program(p) == IF p = "x402_base" THEN "x402" ELSE "erc8004"
ChainOf(p) == IF p = "erc_arb" THEN "arbitrum" ELSE "base"

Kinds == {"x402", "mints", "feedback"}
Scanners == Kinds \X {"ethereum", "base", "arbitrum"}

Methods == {"eth_getLogs", "eth_getTransactionReceipt", "eth_getTransaction",
            "eth_blockNumber", "eth_call", "debug_unknown"}

CU_COSTS(method) ==
  CASE method = "eth_getLogs" -> 75
    [] method = "eth_call" -> 26
    [] method = "eth_getBlockByNumber" -> 16
    [] method = "eth_getTransactionReceipt" -> 15
    [] method = "eth_getTransaction" -> 13
    [] method = "eth_blockNumber" -> 0
    [] OTHER -> 50

\* ------------------------------------------------------------------------
\* Scanner configuration
\* ------------------------------------------------------------------------
X402StateId(chain) == IF chain = "base" THEN "x402_base" ELSE "x402_arb"
BlocksPerDay(chain) == IF chain = "base" THEN BASE_BLOCKS_PER_DAY ELSE ARB_BLOCKS_PER_DAY
USDC(chain) == IF chain = "base" THEN "BASE_USDC" ELSE "ARB_USDC"

IdentityStateId(chain) ==
  IF chain = "ethereum" THEN "erc8004_identity" ELSE "erc8004_identity_base"
ReputationStateId(chain) ==
  IF chain = "ethereum" THEN "erc8004_reputation" ELSE "erc8004_reputation_base"

IdentityDeployBlock(chain) == IF chain = "base" THEN 12 ELSE 9
ReputationDeployBlock(chain) == IF chain = "base" THEN 12 ELSE 9

StateIdOf(s) ==
  CASE s[1] = "x402" -> X402StateId(s[2])
    [] s[1] = "mints" -> IdentityStateId(s[2])
    [] OTHER -> ReputationStateId(s[2])

KNOWN_FACILITATORS == {"F"}
TRANSFER_TOPIC == "Transfer"

\* ------------------------------------------------------------------------
\* The chains (what the RPC provider returns)
\* ------------------------------------------------------------------------
AuthLogs(chain) ==
  IF chain = "base"
  THEN << [block |-> 13, tx |-> "t1", authorizer |-> "A"],
          [block |-> 13, tx |-> "t1", authorizer |-> "B"],
          [block |-> 22, tx |-> "t2", authorizer |-> "C"] >>
  ELSE << >>

Receipt(tx) ==
  IF tx = "t1"
  THEN [blockNumber |-> 13,
        logs |-> << [address |-> "BASE_USDC", topic0 |-> "Transfer", from |-> "A", to |-> "B", data |-> 5],
                    [address |-> "OTHER_TOKEN", topic0 |-> "Transfer", from |-> "A", to |-> "C", data |-> 9],
                    [address |-> "BASE_USDC", topic0 |-> "Transfer", from |-> "B", to |-> "C", data |-> 2] >>]
  ELSE [blockNumber |-> 22,
        logs |-> << [address |-> "BASE_USDC", topic0 |-> "AuthorizationUsed", from |-> "C", to |-> "C", data |-> 0],
                    [address |-> "BASE_USDC", topic0 |-> "Transfer", from |-> "C", to |-> "C", data |-> 1] >>]

TxFrom(tx) == IF tx = "t1" THEN "F" ELSE "C"

MintLogs(chain) ==
  IF chain = "base"
  THEN << [block |-> 13, to |-> "B", tokenId |-> 1],
          [block |-> 16, to |-> "B", tokenId |-> 2] >>
  ELSE << [block |-> 18, to |-> "C", tokenId |-> 7] >>

FeedbackLogs(chain) ==
  IF chain = "base"
  THEN << [block |-> 17, tx |-> "f1", feedbackIndex |-> 0, agentId |-> 1, client |-> "A", value |-> 4] >>
  ELSE << >>

\* ------------------------------------------------------------------------
\* Sequence helpers
\* ------------------------------------------------------------------------
Min(a, b) == IF a < b THEN a ELSE b

RECURSIVE SelectRange(_, _, _)
SelectRange(logs, from, to) ==
  IF logs = << >> THEN << >>
  ELSE IF from <= Head(logs).block /\ Head(logs).block <= to
       THEN << Head(logs) >> \o SelectRange(Tail(logs), from, to)
       ELSE SelectRange(Tail(logs), from, to)

\* [...new Set(authLogs.map(l => l.transactionHash))]: first occurrences, in order
RECURSIVE DistinctTxHashes(_, _)
DistinctTxHashes(logs, seen) ==
  IF logs = << >> THEN << >>
  ELSE IF Head(logs).tx \in seen
       THEN DistinctTxHashes(Tail(logs), seen)
       ELSE << Head(logs).tx >> \o DistinctTxHashes(Tail(logs), seen \cup {Head(logs).tx})

\* authLogs.find(a => a.transactionHash === txHash)
RECURSIVE FindAuthLog(_, _)
FindAuthLog(logs, tx) ==
  IF logs = << >> THEN << >>
  ELSE IF Head(logs).tx = tx THEN << Head(logs) >> ELSE FindAuthLog(Tail(logs), tx)

\* receipt.logs.filter(log => log.address === usdc && log.topics[0] === TRANSFER_TOPIC)
RECURSIVE FilterTransfers(_, _)
FilterTransfers(logs, usdc) ==
  IF logs = << >> THEN << >>
  ELSE IF Head(logs).address = usdc /\ Head(logs).topic0 = TRANSFER_TOPIC
       THEN << Head(logs) >> \o FilterTransfers(Tail(logs), usdc)
       ELSE FilterTransfers(Tail(logs), usdc)

\* the `seen` map of indexMints: one row per address, the first log wins
RECURSIVE DedupeMints(_, _, _)
DedupeMints(logs, chain, seen) ==
  IF logs = << >> THEN << >>
  ELSE IF Head(logs).to \in seen
       THEN DedupeMints(Tail(logs), chain, seen)
       ELSE << [address |-> Head(logs).to, source |-> "erc8004", chain |-> chain,
                erc8004_id |-> Head(logs).tokenId, first_seen_block |-> Head(logs).block] >>
            \o DedupeMints(Tail(logs), chain, seen \cup {Head(logs).to})

\* ------------------------------------------------------------------------
\* The store: SQL statements
\* ------------------------------------------------------------------------
\* (variant: a plain INSERT, no unique index on (tx_hash, chain))
InsertTransactionRow_Plain(rows, r) == Append(rows, r)

\* INSERT INTO transactions ... ON CONFLICT (tx_hash, chain) DO NOTHING
InsertTransactionRow(rows, r) ==
  IF \E i \in 1..Len(rows) : rows[i].tx_hash = r.tx_hash /\ rows[i].chain = r.chain
  THEN rows
  ELSE Append(rows, r)

\* (variant: the conflict branch sets source = EXCLUDED.source)
UpsertPaymentWallet_Overwrite(w, addr, chain, block) ==
  IF addr \in DOMAIN w
  THEN [w EXCEPT ![addr].source = "x402",
                 ![addr].tx_count = @ + 1,
                 ![addr].needs_rescore = TRUE]
  ELSE w @@ (addr :> [source |-> "x402", chain |-> chain, erc8004_id |-> NoId,
                      first_seen_block |-> block, tx_count |-> 1, needs_rescore |-> TRUE])

\* INSERT INTO wallets (..., 'x402', ..., 1) ON CONFLICT (address) DO UPDATE SET ...
UpsertPaymentWallet(w, addr, chain, block) ==
  IF addr \in DOMAIN w
  THEN [w EXCEPT ![addr].source = IF @ = "erc8004" THEN "both" ELSE @,
                 ![addr].tx_count = @ + 1,
                 ![addr].needs_rescore = TRUE]
  ELSE w @@ (addr :> [source |-> "x402", chain |-> chain, erc8004_id |-> NoId,
                      first_seen_block |-> block, tx_count |-> 1, needs_rescore |-> TRUE])

\* (variant: the conflict branch sets erc8004_id = EXCLUDED.erc8004_id)
UpsertMintWallet_IdOverwritten(w, row) ==
  IF row.address \in DOMAIN w
  THEN [w EXCEPT ![row.address].source = IF @ = "x402" THEN "both" ELSE @,
                 ![row.address].erc8004_id = row.erc8004_id,
                 ![row.address].needs_rescore = TRUE]
  ELSE w @@ (row.address :> [source |-> row.source, chain |-> row.chain,
                             erc8004_id |-> row.erc8004_id,
                             first_seen_block |-> row.first_seen_block,
                             tx_count |-> 0, needs_rescore |-> TRUE])

\* (variant: the conflict branch leaves source alone)
UpsertMintWallet_NoPromotion(w, row) ==
  IF row.address \in DOMAIN w
  THEN [w EXCEPT ![row.address].erc8004_id = IF @ = NoId THEN row.erc8004_id ELSE @,
                 ![row.address].needs_rescore = TRUE]
  ELSE w @@ (row.address :> [source |-> row.source, chain |-> row.chain,
                             erc8004_id |-> row.erc8004_id,
                             first_seen_block |-> row.first_seen_block,
                             tx_count |-> 0, needs_rescore |-> TRUE])

\* one row of INSERT INTO wallets ${sql(rows, ...)} ON CONFLICT (address) DO UPDATE SET ...
UpsertMintWallet(w, row) ==
  IF row.address \in DOMAIN w
  THEN [w EXCEPT ![row.address].source = IF @ = "x402" THEN "both" ELSE @,
                 ![row.address].erc8004_id = IF @ = NoId THEN row.erc8004_id ELSE @,
                 ![row.address].needs_rescore = TRUE]
  ELSE w @@ (row.address :> [source |-> row.source, chain |-> row.chain,
                             erc8004_id |-> row.erc8004_id,
                             first_seen_block |-> row.first_seen_block,
                             tx_count |-> 0, needs_rescore |-> TRUE])

RECURSIVE UpsertMintRows(_, _)
UpsertMintRows(w, rows) ==
  IF rows = << >> THEN w ELSE UpsertMintRows(UpsertMintWallet(w, Head(rows)), Tail(rows))

\* one row of INSERT INTO feedback ... ON CONFLICT (tx_hash, feedback_index) DO NOTHING
InsertFeedbackRow(rows, r) ==
  IF \E i \in 1..Len(rows) : rows[i].tx_hash = r.tx_hash /\ rows[i].feedback_index = r.feedback_index
  THEN rows
  ELSE Append(rows, r)

RECURSIVE InsertFeedbackRows(_, _)
InsertFeedbackRows(rows, logs) ==
  IF logs = << >> THEN rows
  ELSE InsertFeedbackRows(
         InsertFeedbackRow(rows, [tx_hash |-> Head(logs).tx, feedback_index |-> Head(logs).feedbackIndex,
                                  agent_id |-> Head(logs).agentId, client_address |-> Head(logs).client,
                                  value |-> Head(logs).value, block_number |-> Head(logs).block]),
         Tail(logs))

\* INSERT INTO indexer_state ... ON CONFLICT (id) DO UPDATE SET last_block = batchEnd
UpsertCursor(st, id, batchEnd) ==
  IF id \in DOMAIN st THEN [st EXCEPT ![id] = batchEnd] ELSE st @@ (id :> batchEnd)

\* ------------------------------------------------------------------------
\* Budget governor (cu-tracker)
\* ------------------------------------------------------------------------
FreshGovernor ==
  [sessionCUs |-> 0, budgetExceeded |-> FALSE,
   methodCounts |-> [m \in Methods |-> 0], warnings |-> 0, aborts |-> 0]

\* (variant: the cost of one call is added whatever the count)
trackCU_CountIgnored(g, method, count) ==
  LET total == g.sessionCUs + CU_COSTS(method)
      over90 == total * 10 >= 9 * MONTHLY_CU_BUDGET
      over80 == total * 10 >= 8 * MONTHLY_CU_BUDGET
  IN [sessionCUs |-> total,
      methodCounts |-> [g.methodCounts EXCEPT ![method] = @ + count],
      budgetExceeded |-> IF over90 /\ ~g.budgetExceeded THEN TRUE ELSE g.budgetExceeded,
      aborts |-> IF over90 /\ ~g.budgetExceeded THEN g.aborts + 1 ELSE g.aborts,
      warnings |-> IF ~(over90 /\ ~g.budgetExceeded) /\ over80 THEN g.warnings + 1 ELSE g.warnings]

\* (variant: the flag is assigned the test instead of being set once)
trackCU_FlagAssigned(g, method, count) ==
  LET total == g.sessionCUs + CU_COSTS(method) * count
      over90 == total * 10 >= 9 * MONTHLY_CU_BUDGET
      over80 == total * 10 >= 8 * MONTHLY_CU_BUDGET
  IN [sessionCUs |-> total,
      methodCounts |-> [g.methodCounts EXCEPT ![method] = @ + count],
      budgetExceeded |-> over90 /\ ~g.budgetExceeded,
      aborts |-> IF over90 /\ ~g.budgetExceeded THEN g.aborts + 1 ELSE g.aborts,
      warnings |-> IF ~(over90 /\ ~g.budgetExceeded) /\ over80 THEN g.warnings + 1 ELSE g.warnings]

trackCU(g, method, count) ==
  LET total == g.sessionCUs + CU_COSTS(method) * count
      over90 == total * 10 >= 9 * MONTHLY_CU_BUDGET
      over80 == total * 10 >= 8 * MONTHLY_CU_BUDGET
  IN [sessionCUs |-> total,
      methodCounts |-> [g.methodCounts EXCEPT ![method] = @ + count],
      budgetExceeded |-> IF over90 /\ ~g.budgetExceeded THEN TRUE ELSE g.budgetExceeded,
      aborts |-> IF over90 /\ ~g.budgetExceeded THEN g.aborts + 1 ELSE g.aborts,
      warnings |-> IF ~(over90 /\ ~g.budgetExceeded) /\ over80 THEN g.warnings + 1 ELSE g.warnings]

\* (variant: the scanners never see the flag)
shouldStop_Never(g) == FALSE

shouldStop(g) == g.budgetExceeded

\* ------------------------------------------------------------------------
\* RPC retry harness
\* ------------------------------------------------------------------------
\* (variant: every error is retried)
IsRetryableRpc_Any(err) == err # "ok"

IsRetryableRpc(err) ==
  err \in {"HTTP429", "HTTP502", "HTTP503", "ETIMEDOUT", "ECONNRESET", "UND_ERR_SOCKET"}

\* the sleeps before the given attempt: 1000 * Math.pow(2, k - 1) ms after the
\* k-th failed attempt
SleptBefore(attempt) == 1000 * (2 ^ (attempt - 1) - 1)

\* results[i] is what the wrapped call does on its i-th invocation
RECURSIVE withRetryFrom(_, _)
withRetryFrom(results, attempt) ==
  IF results[attempt] = "ok"
  THEN [ok |-> TRUE, attempts |-> attempt, err |-> "none", slept |-> SleptBefore(attempt)]
  ELSE IF IsRetryableRpc(results[attempt]) /\ attempt < MaxRetries
       THEN withRetryFrom(results, attempt + 1)
       ELSE [ok |-> FALSE, attempts |-> attempt, err |-> results[attempt],
             slept |-> SleptBefore(attempt)]

withRetry(results) == withRetryFrom(results, 1)

\* (variant: every thrown error restarts main())
IsRetryableMain_Any(err) == TRUE

\* mainWithRetry: which thrown errors restart main()
IsRetryableMain(err) == err \in {"ECONNRESET", "ETIMEDOUT", "ECONNREFUSED"}

\* cursor commit: which errors get the single retry
IsTransientDb(err) == err \in {"ECONNRESET", "ETIMEDOUT"}

OkScript == << "ok", "ok", "ok" >>
RpcScripts ==
  { OkScript,
    << "HTTP429", "ok", "ok" >>,
    << "HTTP429", "HTTP429", "HTTP429" >>,
    << "ETIMEDOUT", "ETIMEDOUT", "ETIMEDOUT" >>,
    << "HTTP400", "ok", "ok" >> }
DbErrors == {"ECONNRESET", "DBERROR"}
Limits == {NoLimit, LimitN}

\* ------------------------------------------------------------------------
\* Trust score engine: shapers and composition
\* ------------------------------------------------------------------------
\* Shaper outputs are JavaScript numbers; here they are fixed-point integers
\* in thousandths of a point (100 points = 100000), rounded to the nearest
\* thousandth.  Dates are whole days; NaNDate is an invalid Date.  An average
\* feedback value is in tenths (avg_feedback 4.0 = 40); NullAvg is null.
NaNDate == -100000
NullAvg == -100000

\* weights in hundredths
WEIGHTS ==
  [loyalty |-> 30, activity |-> 18, diversity |-> 16, feedback |-> 15,
   volume |-> 10, recency |-> 6, age |-> 5]

Shapers == {"loyalty", "activity", "diversity", "feedback", "volume", "recency", "age"}

Max(a, b) == IF a >= b THEN a ELSE b

\* Math.round(a / b) for b > 0: the nearest integer, halves towards +infinity
RoundDiv(a, b) == (2 * a + b) \div (2 * b)

\* 100000 * log10(n), rounded, for n = 1 .. 256
Log10Table ==
  << 0, 30103, 47712, 60206, 69897, 77815, 84510, 90309, 95424, 100000, 104139, 107918,
     111394, 114613, 117609, 120412, 123045, 125527, 127875, 130103, 132222, 134242, 136173, 138021,
     139794, 141497, 143136, 144716, 146240, 147712, 149136, 150515, 151851, 153148, 154407, 155630,
     156820, 157978, 159106, 160206, 161278, 162325, 163347, 164345, 165321, 166276, 167210, 168124,
     169020, 169897, 170757, 171600, 172428, 173239, 174036, 174819, 175587, 176343, 177085, 177815,
     178533, 179239, 179934, 180618, 181291, 181954, 182607, 183251, 183885, 184510, 185126, 185733,
     186332, 186923, 187506, 188081, 188649, 189209, 189763, 190309, 190849, 191381, 191908, 192428,
     192942, 193450, 193952, 194448, 194939, 195424, 195904, 196379, 196848, 197313, 197772, 198227,
     198677, 199123, 199564, 200000, 200432, 200860, 201284, 201703, 202119, 202531, 202938, 203342,
     203743, 204139, 204532, 204922, 205308, 205690, 206070, 206446, 206819, 207188, 207555, 207918,
     208279, 208636, 208991, 209342, 209691, 210037, 210380, 210721, 211059, 211394, 211727, 212057,
     212385, 212710, 213033, 213354, 213672, 213988, 214301, 214613, 214922, 215229, 215534, 215836,
     216137, 216435, 216732, 217026, 217319, 217609, 217898, 218184, 218469, 218752, 219033, 219312,
     219590, 219866, 220140, 220412, 220683, 220952, 221219, 221484, 221748, 222011, 222272, 222531,
     222789, 223045, 223300, 223553, 223805, 224055, 224304, 224551, 224797, 225042, 225285, 225527,
     225768, 226007, 226245, 226482, 226717, 226951, 227184, 227416, 227646, 227875, 228103, 228330,
     228556, 228780, 229003, 229226, 229447, 229667, 229885, 230103, 230320, 230535, 230750, 230963,
     231175, 231387, 231597, 231806, 232015, 232222, 232428, 232634, 232838, 233041, 233244, 233445,
     233646, 233846, 234044, 234242, 234439, 234635, 234830, 235025, 235218, 235411, 235603, 235793,
     235984, 236173, 236361, 236549, 236736, 236922, 237107, 237291, 237475, 237658, 237840, 238021,
     238202, 238382, 238561, 238739, 238917, 239094, 239270, 239445, 239620, 239794, 239967, 240140,
     240312, 240483, 240654, 240824 >>

\* Math.log10(n) in units of 0.00001
Log10E5(n) ==
  IF n <= 256 THEN Log10Table[n]
  ELSE CASE n = 401 -> 260314
         [] n = 10001 -> 400004
         [] n = 40001 -> 460207

\* Math.min(100, (Math.log10(x + 1) / Math.log10(base)) * 100), the quotient
\* taken in two steps to stay inside 32-bit integers
LogShaper(x, base) ==
  LET n == Log10E5(x + 1) * 1000
      d == Log10E5(base)
  IN Min(100000, (n \div d) * 100 + RoundDiv((n % d) * 100, d))

ageScore(firstSeenAt, today) ==
  IF firstSeenAt = NaNDate THEN 0
  ELSE LET days == today - firstSeenAt
       IN IF days < 0 THEN 0 ELSE LogShaper(days, 181)

activityScore(txCount) ==
  IF txCount <= 0 THEN 0 ELSE LogShaper(txCount, 101)

diversityScore(uniqueCounterparties) ==
  IF uniqueCounterparties <= 0 THEN 0 ELSE LogShaper(uniqueCounterparties, 31)

\* (variant: no Sybil branch)
loyaltyScore_NoSybilCap(txCount, uniqueCounterparties) ==
  IF txCount <= 1 \/ uniqueCounterparties = 0 THEN 0
  ELSE Min(100000, RoundDiv((txCount - uniqueCounterparties) * 25000, uniqueCounterparties))

\* avgTxPerPartner = txCount / uniqueCounterparties is kept as the fraction;
\* ((avgTxPerPartner - 1) / 4) * 100 = 25 * (txCount - cp) / cp
loyaltyScore(txCount, uniqueCounterparties) ==
  IF txCount <= 1 \/ uniqueCounterparties = 0 THEN 0
  ELSE LET base == RoundDiv((txCount - uniqueCounterparties) * 25000, uniqueCounterparties)
       IN IF txCount > 20 * uniqueCounterparties /\ uniqueCounterparties < 3
          THEN Min(40000, base)
          ELSE Min(100000, base)

\* (variant: a last_seen_at in the future counts as stale)
recencyScore_FutureIsStale(lastSeenAt, today) ==
  IF lastSeenAt = NaNDate THEN 0
  ELSE LET days == today - lastSeenAt
       IN IF days < 0 THEN 0
          ELSE IF days <= 7 THEN 100000
          ELSE IF days >= 90 THEN 0
          ELSE Max(0, 100000 - RoundDiv((days - 7) * 100000, 83))

recencyScore(lastSeenAt, today) ==
  IF lastSeenAt = NaNDate THEN 0
  ELSE LET days == today - lastSeenAt
       IN IF days < 0 THEN 100000
          ELSE IF days <= 7 THEN 100000
          ELSE IF days >= 90 THEN 0
          ELSE Max(0, 100000 - RoundDiv((days - 7) * 100000, 83))

\* (variant: the raw score is not blended towards 50)
feedbackScore_NoConfidence(avgFeedback, feedbackCount) ==
  IF feedbackCount = 0 \/ avgFeedback = NullAvg THEN 50000
  ELSE Min(100000, avgFeedback * 2000)

\* avgFeedback in tenths; confidence in tenths
feedbackScore(avgFeedback, feedbackCount) ==
  IF feedbackCount = 0 \/ avgFeedback = NullAvg THEN 50000
  ELSE LET rawScore == Min(100000, avgFeedback * 2000)
           confidence == Min(10, feedbackCount)
       IN RoundDiv(confidence * rawScore + (10 - confidence) * 50000, 10)

\* the inputs drawn below have totals that are whole multiples of the
\* counterparty count, so avgDealSize is the exact quotient
volumeScore(totalVolumeUSDC, counterparties) ==
  IF totalVolumeUSDC <= 0 \/ counterparties <= 0 THEN 50000
  ELSE LET avgDealSize == totalVolumeUSDC \div counterparties
       IN LogShaper(avgDealSize, 10001)

\* (variant: the final score is not clamped)
Clamp_Off(score) == score

\* Math.max(0, Math.min(100, score))
Clamp(score) == Max(0, Min(100, score))

computeScore(w, today) ==
  LET age == ageScore(w.first_seen_at, today)
      activity == activityScore(w.tx_count)
      diversity == diversityScore(w.unique_counterparties)
      loyalty == loyaltyScore(w.tx_count, w.unique_counterparties)
      recency == recencyScore(w.last_seen_at, today)
      fb == feedbackScore(w.avg_feedback, w.feedback_count)
      volume == volumeScore(w.total_volume_usdc, w.volume_counterparties)
      rounded == RoundDiv(loyalty * WEIGHTS.loyalty + activity * WEIGHTS.activity
                          + diversity * WEIGHTS.diversity + fb * WEIGHTS.feedback
                          + volume * WEIGHTS.volume + recency * WEIGHTS.recency
                          + age * WEIGHTS.age, 100000)
      bonus == IF w.is_registered THEN 5 ELSE 0
  IN [score |-> Clamp(rounded + bonus),
      breakdown |-> [loyalty |-> RoundDiv(loyalty, 1000),
                     activity |-> RoundDiv(activity, 1000),
                     diversity |-> RoundDiv(diversity, 1000),
                     feedback |-> RoundDiv(fb, 1000),
                     volume |-> RoundDiv(volume, 1000),
                     age |-> RoundDiv(age, 1000),
                     recency |-> RoundDiv(recency, 1000),
                     registered_bonus |-> bonus],
      shapers |-> [loyalty |-> loyalty, activity |-> activity, diversity |-> diversity,
                   feedback |-> fb, volume |-> volume, age |-> age, recency |-> recency]]

\* signal bundles handed to computeScore
Today == 200
TxCounts == (0 .. MaxTx) \cup {10, 43, 50, 60}
Counterparties == (0 .. MaxCp) \cup {5, 10}
AvgFeedbacks == {NullAvg, -50, 0, 40, 50}
FeedbackCounts == {0, 1, 10}
Volumes == {<< 0, 0 >>, << 400, 4 >>, << 40000, 4 >>}
FirstSeens == {NaNDate, Today - 199, Today - 1}
LastSeens == {Today + 1, Today - 50, Today - 120}

WalletSignals ==
  [tx_count : TxCounts, unique_counterparties : Counterparties,
   avg_feedback : AvgFeedbacks, feedback_count : FeedbackCounts,
   volume : Volumes, first_seen_at : FirstSeens, last_seen_at : LastSeens,
   is_registered : BOOLEAN]

Signals(b) ==
  [tx_count |-> b.tx_count, unique_counterparties |-> b.unique_counterparties,
   avg_feedback |-> b.avg_feedback, feedback_count |-> b.feedback_count,
   total_volume_usdc |-> b.volume[1], volume_counterparties |-> b.volume[2],
   first_seen_at |-> b.first_seen_at, last_seen_at |-> b.last_seen_at,
   is_registered |-> b.is_registered]

NoSignals ==
  [tx_count |-> 0, unique_counterparties |-> 0, avg_feedback |-> NullAvg,
   feedback_count |-> 0, total_volume_usdc |-> 0, volume_counterparties |-> 0,
   first_seen_at |-> NaNDate, last_seen_at |-> NaNDate, is_registered |-> FALSE]

NoOutcome == [at |-> NaNDate, of |-> NoSignals, result |-> computeScore(NoSignals, 0)]

\* scoring engine processes
ScoreProcs == {"score_1", "score_2"}
IdleScorer ==
  [pc |-> "idle", full |-> FALSE, wallets |-> << >>, results |-> << >>,
   i |-> 0, j |-> 0, retries |-> 0, exit |-> "none"]

\* const BATCH_SIZE = 500 in main(), scaled down so that a handful of wallets
\* spans more than one batch
SCORE_BATCH_SIZE == 500 \div ScoreBatchScale

\* ORDER BY id: the order in which the indexers inserted the wallets
AddressOrder == << "A", "B", "C" >>

\* (variant: the incremental filter is dropped)
SelectWallets_All(w, full) ==
  LET picked == SelectSeq(AddressOrder, LAMBDA a : a \in DOMAIN w)
  IN [k \in 1 .. Len(picked) |-> [address |-> picked[k]] @@ w[picked[k]]]

\* SELECT * FROM wallets [WHERE needs_rescore = true] ORDER BY id
SelectWallets(w, full) ==
  LET picked == SelectSeq(AddressOrder,
                          LAMBDA a : a \in DOMAIN w /\ (full \/ w[a].needs_rescore))
  IN [k \in 1 .. Len(picked) |-> [address |-> picked[k]] @@ w[picked[k]]]

RECURSIVE SumOver(_, _)
SumOver(f, S) ==
  IF S = {} THEN 0 ELSE LET x == CHOOSE y \in S : TRUE IN f[x] + SumOver(f, S \ {x})

\* COUNT(DISTINCT counterparty) over payer/recipient pairs, both directions
CounterpartyStats(txs, addr) ==
  Cardinality({txs[k].recipient : k \in {n \in 1 .. Len(txs) : txs[n].payer = addr}}
              \cup {txs[k].payer : k \in {n \in 1 .. Len(txs) : txs[n].recipient = addr}})

\* COUNT(*) and AVG(f.value) of feedback JOIN wallets ON agent_id = erc8004_id;
\* the average in tenths
FeedbackStats(fb, w, addr) ==
  LET rows == {k \in 1 .. Len(fb) : w[addr].erc8004_id # NoId /\ fb[k].agent_id = w[addr].erc8004_id}
      count == Cardinality(rows)
  IN [count |-> count,
      avg |-> IF count = 0 THEN NullAvg
              ELSE RoundDiv(10 * SumOver([k \in rows |-> fb[k].value], rows), count)]

\* payer_count / recipient_count -> buyer, seller, both (null without rows)
RoleStats(txs, addr) ==
  LET payer_count == Cardinality({k \in 1 .. Len(txs) : txs[k].payer = addr})
      recipient_count == Cardinality({k \in 1 .. Len(txs) : txs[k].recipient = addr})
  IN IF payer_count > 0 /\ recipient_count > 0 THEN "both"
     ELSE IF payer_count > 0 THEN "buyer"
     ELSE IF recipient_count > 0 THEN "seller"
     ELSE "null"

\* SUM(amount_usdc) over both directions (UNION ALL), COUNT(DISTINCT counterparty)
VolumeStats(txs, addr) ==
  LET asPayer == {k \in 1 .. Len(txs) : txs[k].payer = addr}
      asRecipient == {k \in 1 .. Len(txs) : txs[k].recipient = addr}
      amount == [k \in 1 .. Len(txs) |-> txs[k].amount_raw]
  IN [volume |-> SumOver(amount, asPayer) + SumOver(amount, asRecipient),
      counterparties |-> CounterpartyStats(txs, addr)]

\* the signal bundle of one selected wallet row; every wallet of the model
\* was first seen yesterday and last seen today
SignalsOf(row, txs, fb, w) ==
  LET stats == FeedbackStats(fb, w, row.address)
      vol == VolumeStats(txs, row.address)
  IN [tx_count |-> row.tx_count,
      unique_counterparties |-> CounterpartyStats(txs, row.address),
      avg_feedback |-> stats.avg, feedback_count |-> stats.count,
      total_volume_usdc |-> vol.volume, volume_counterparties |-> vol.counterparties,
      first_seen_at |-> Today - 1, last_seen_at |-> Today,
      is_registered |-> row.erc8004_id # NoId]

\* results.push({ address, score, breakdown, role })
ScoreResults(rows, txs, fb, w, today) ==
  [k \in 1 .. Len(rows) |->
     LET r == computeScore(SignalsOf(rows[k], txs, fb, w), today)
     IN [address |-> rows[k].address, score |-> r.score, breakdown |-> r.breakdown,
         role |-> RoleStats(txs, rows[k].address)]]

\* results.slice(i, i + BATCH_SIZE), i counted from 0
Slice(results, i) ==
  SubSeq(results, i + 1, Min(i + SCORE_BATCH_SIZE, Len(results)))

\* UPDATE wallets SET trust_score, score_breakdown, scored_at, role,
\* needs_rescore = false WHERE address = b.address: the wallet row ...
ClearRescore(w, b) ==
  IF b.address \in DOMAIN w THEN [w EXCEPT ![b.address].needs_rescore = FALSE] ELSE w

\* ... and its scoring columns
WriteScore(sc, w, b) ==
  IF b.address \in DOMAIN w
  THEN [a \in DOMAIN sc \cup {b.address} |->
          IF a = b.address
          THEN [trust_score |-> b.score, score_breakdown |-> b.breakdown, role |-> b.role]
          ELSE sc[a]]
  ELSE sc

\* ------------------------------------------------------------------------
\* State
\* ------------------------------------------------------------------------
VARIABLES
  head,            \* chain -> current block height
  indexer_state,   \* cursor id -> last_block (rows of indexer_state)
  wallets,         \* address -> wallet row
  transactions,    \* rows of transactions, in insertion order
  feedback,        \* rows of feedback, in insertion order
  run,             \* process -> position and locals of the running program
  gov,             \* process -> budget governor state (process-scoped)
  last,            \* the run that ended last, until the next one starts
  runs,            \* program starts so far
  faults,          \* injected failures so far
  interrupts,      \* operator interrupts so far
  scanned,         \* scanner -> blocks covered by a successful getLogs
  startBlock,      \* scanner -> first block it ever scanned
  touched,         \* scanner -> cursor ids it has read or written
  complete,        \* scanner -> blocks of batches persisted without a failed insert
  paySeen,         \* addresses upserted by a payment observation
  mintSeen,        \* addresses upserted by a mint observation
  actor,           \* the last step taken
  now,             \* the scoring engine's clock, in days
  bundle,          \* the signal bundle under computeScore
  outcome,         \* what computeScore last returned for it, and when
  scores,          \* address -> scoring columns of the wallet row
  score_history,   \* rows of score_history, in insertion order
  scorer,          \* scoring process -> position and locals
  webhooks,        \* rows of webhooks, in id order
  dispatcher,      \* the notification dispatcher's position and locals
  posts,           \* HTTP POSTs attempted by the dispatcher
  request,         \* the call a client makes on a read surface or the SDK
  response         \* what that call returned, and the HTTP requests it sent

vars == << head, indexer_state, wallets, transactions, feedback, run, gov, last, runs,
           faults, interrupts, scanned, startBlock, touched, complete, paySeen,
           mintSeen, actor, now, bundle, outcome, scores, score_history, scorer,
           webhooks, dispatcher, posts, request, response >>

store == << indexer_state, wallets, transactions, feedback >>
ghosts == << scanned, startBlock, touched, complete, paySeen, mintSeen >>
engine == << now, bundle, outcome >>
scoring == << scores, score_history, scorer >>
notify == << webhooks, dispatcher, posts >>
surface == << request, response >>

IdleRun ==
  [pc |-> "idle", kind |-> "none", limit |-> NoLimit, attempt |-> 0, head |-> NoBlock,
   from |-> [k \in Kinds |-> NoBlock], to |-> [k \in Kinds |-> NoBlock],
   cursor0 |-> [k \in Kinds |-> NoBlock],
   current |-> NoBlock, toBlock |-> NoBlock, batchEnd |-> NoBlock,
   logs |-> << >>, txs |-> << >>, transfers |-> << >>, idx |-> 0, batchOk |-> TRUE,
   blocksScanned |-> [k \in Kinds |-> 0], batches |-> 0,
   exit |-> "none", stopped |-> {}, clean |-> TRUE,
   sent |-> [m \in Methods |-> 0], err |-> "none"]

\* the requests the process has put on the wire, per method: every invocation
\* of the function handed to withRetry is one request
Send(r, method, attempts) == [r EXCEPT !.sent[method] = @ + attempts]

NoLast == [proc |-> "none", r |-> IdleRun]

InitBase ==
  /\ head = [c \in Chains |-> IF c = "base" THEN InitHead ELSE ArbHead]
  /\ indexer_state = << >>
  /\ wallets = << >>
  /\ transactions = << >>
  /\ feedback = << >>
  /\ run = [p \in Procs |-> IdleRun]
  /\ gov = [p \in Procs |-> FreshGovernor]
  /\ last = NoLast
  /\ runs = 0
  /\ scanned = [s \in Scanners |-> {}]
  /\ startBlock = [s \in Scanners |-> NoBlock]
  /\ touched = [s \in Scanners |-> {}]
  /\ complete = [s \in Scanners |-> {}]
  /\ paySeen = {}
  /\ mintSeen = {}
  /\ actor = [proc |-> "none", op |-> "init"]
  /\ scores = << >>
  /\ score_history = << >>
  /\ scorer = [q \in ScoreProcs |-> IdleScorer]

NoScore == -1
NoThreshold == -1
NoWallet == "none"
IdleDispatcher == [pc |-> "idle", mark |-> 0, hooks |-> << >>, pending |-> << >>, k |-> 0, attempt |-> 0]
NoRequest == [surface |-> "none"]
NoResponse == [surface |-> "none"]

InitNotify ==
  /\ webhooks = << >>
  /\ dispatcher = IdleDispatcher
  /\ posts = {}

InitSurface ==
  /\ request = NoRequest
  /\ response = NoResponse

InitEngine ==
  /\ now = Today
  /\ bundle = NoSignals
  /\ outcome = NoOutcome

Init ==
  /\ InitBase
  /\ InitEngine
  /\ InitNotify
  /\ InitSurface
  /\ faults = 0
  /\ interrupts = 0

ScannerOf(p) == << run[p].kind, ChainOf(p) >>
Cursor(id) == IF id \in DOMAIN indexer_state THEN indexer_state[id] ELSE NoBlock

ChainLogs(kind, chain) ==
  CASE kind = "x402" -> AuthLogs(chain)
    [] kind = "mints" -> MintLogs(chain)
    [] OTHER -> FeedbackLogs(chain)

\* ------------------------------------------------------------------------
\* Control flow shared by the programs
\* ------------------------------------------------------------------------
ClearBatch(r) ==
  [r EXCEPT !.logs = << >>, !.txs = << >>, !.transfers = << >>, !.idx = 0,
            !.current = NoBlock, !.toBlock = NoBlock, !.batchEnd = NoBlock]

\* main() returns: summary queries, sql.end(), exit code 0
FinishRun(r) == [ClearBatch(r) EXCEPT !.pc = "idle", !.kind = "none", !.exit = "0"]

\* the catch block of mainWithRetry
Throw(r, err) ==
  IF IsRetryableMain(err) /\ r.attempt < MaxRestarts
  THEN [ClearBatch(r) EXCEPT !.pc = "main", !.kind = "none", !.attempt = @ + 1, !.clean = FALSE,
                             !.err = err]
  ELSE [ClearBatch(r) EXCEPT !.pc = "idle", !.kind = "none", !.exit = "1", !.clean = FALSE,
                             !.err = err]

\* indexChain of the erc8004 program after indexMints returns
StartFeedback(r) ==
  IF r.from["feedback"] <= r.to["feedback"]
  THEN [ClearBatch(r) EXCEPT !.pc = "loop", !.kind = "feedback", !.batches = 0,
                             !.current = r.from["feedback"], !.toBlock = r.to["feedback"]]
  ELSE FinishRun(r)

\* the scanner's while loop is left (condition false, or break)
EndScanner(r) == IF r.kind = "mints" THEN StartFeedback(r) ELSE FinishRun(r)

\* (variant: the window is not clipped to the run's last block)
BatchEnd_Unclipped(r) == r.current + BATCH_SIZE - 1

BatchEnd(r) ==
  IF r.current + BATCH_SIZE - 1 > r.toBlock THEN r.toBlock ELSE r.current + BATCH_SIZE - 1

Outcomes == IF faults < MaxFaults THEN {withRetry(s) : s \in RpcScripts} ELSE {withRetry(OkScript)}
FaultCost(res) == IF res = withRetry(OkScript) THEN 0 ELSE 1

\* process p moves to r with governor g; a process that has exited leaves
\* nothing behind but the record of its run
Step(p, r, g, op) ==
  /\ run' = [run EXCEPT ![p] = IF r.pc = "idle" THEN IdleRun ELSE r]
  /\ gov' = [gov EXCEPT ![p] = IF r.pc = "idle" THEN FreshGovernor ELSE g]
  /\ last' = IF r.pc = "idle" THEN [proc |-> p, r |-> r] ELSE last
  /\ actor' = [proc |-> p, op |-> op]

\* ------------------------------------------------------------------------
\* Process start, interrupt, chain growth
\* ------------------------------------------------------------------------
\* the operator starts the program: mainWithRetry() -> main(), fresh governor
StartProcess(p) ==
  /\ run[p].pc = "idle"
  /\ runs < MaxRuns
  /\ runs' = runs + 1
  /\ \E limit \in Limits :
       run' = [run EXCEPT ![p] = [IdleRun EXCEPT !.pc = "main", !.limit = limit, !.attempt = 1]]
  /\ gov' = [gov EXCEPT ![p] = FreshGovernor]
  /\ last' = NoLast
  /\ actor' = [proc |-> p, op |-> "Start"]
  /\ UNCHANGED << engine, scoring, notify, surface, head, store, faults, interrupts, ghosts >>

\* one program at a time
Start(p) ==
  /\ \A q \in Procs : run[q].pc = "idle"
  /\ StartProcess(p)

\* the operator interrupts the process: every local is lost, the store stays
Interrupt(p) ==
  /\ run[p].pc # "idle"
  /\ interrupts < MaxInterrupts
  /\ interrupts' = interrupts + 1
  /\ Step(p, [ClearBatch(run[p]) EXCEPT !.pc = "idle", !.kind = "none",
                                        !.exit = "killed", !.clean = FALSE],
          gov[p], "Interrupt")
  /\ UNCHANGED << engine, scoring, notify, surface, head, store, runs, faults, ghosts >>

AdvanceHead(c) ==
  /\ \A p \in Procs : run[p].pc \in {"idle", "main"}
  /\ head[c] + HeadStep <= MaxHead
  /\ head' = [head EXCEPT ![c] = @ + HeadStep]
  /\ actor' = [proc |-> "none", op |-> "AdvanceHead"]
  /\ UNCHANGED << engine, scoring, notify, surface, store, run, gov, last, runs, faults, interrupts, ghosts >>

\* ------------------------------------------------------------------------
\* indexChain
\* ------------------------------------------------------------------------
\* x402: head, cursor, default window (--days 0), --limit
IndexChainX402(p) ==
  /\ run[p].pc = "main"
  /\ Program(p) = "x402"
  /\ LET r == run[p]
         chain == ChainOf(p)
         id == X402StateId(chain)
         currentBlock == head[chain]
         daysBack == 0
         defaultStart == currentBlock - BlocksPerDay(chain) * daysBack
         fromBlock == IF id \in DOMAIN indexer_state THEN indexer_state[id] + 1 ELSE defaultStart
         toBlock == IF r.limit # NoLimit /\ r.limit # 0 /\ fromBlock + r.limit < currentBlock
                    THEN fromBlock + r.limit ELSE currentBlock
         r1 == [Send(r, "eth_blockNumber", 1)
                  EXCEPT !.head = currentBlock, !.from["x402"] = fromBlock,
                         !.to["x402"] = toBlock, !.cursor0["x402"] = Cursor(id)]
     IN /\ Step(p, IF fromBlock > currentBlock
                   THEN FinishRun(r1)
                   ELSE [r1 EXCEPT !.pc = "loop", !.kind = "x402", !.batches = 0,
                                   !.current = fromBlock, !.toBlock = toBlock],
                trackCU(gov[p], "eth_blockNumber", 1), "IndexChain")
        /\ touched' = [touched EXCEPT ![<< "x402", chain >>] = @ \cup {id}]
  /\ UNCHANGED << engine, scoring, notify, surface, head, store, runs, faults, interrupts, scanned, startBlock, complete,
                  paySeen, mintSeen >>

\* erc8004: head, both cursors, deploy blocks, --limit; then indexMints, then indexFeedback
IndexChainErc(p) ==
  /\ run[p].pc = "main"
  /\ Program(p) = "erc8004"
  /\ LET r == run[p]
         chain == ChainOf(p)
         currentBlock == head[chain]
         identityStateId == IdentityStateId(chain)
         reputationStateId == ReputationStateId(chain)
         identityFrom == IF identityStateId \in DOMAIN indexer_state
                         THEN indexer_state[identityStateId] + 1 ELSE IdentityDeployBlock(chain)
         reputationFrom == IF reputationStateId \in DOMAIN indexer_state
                           THEN indexer_state[reputationStateId] + 1 ELSE ReputationDeployBlock(chain)
         identityTo == IF r.limit # NoLimit /\ r.limit # 0
                       THEN (IF identityFrom + r.limit < currentBlock
                             THEN identityFrom + r.limit ELSE currentBlock)
                       ELSE currentBlock
         reputationTo == IF r.limit # NoLimit /\ r.limit # 0
                         THEN (IF reputationFrom + r.limit < currentBlock
                               THEN reputationFrom + r.limit ELSE currentBlock)
                         ELSE currentBlock
         r1 == [Send(r, "eth_blockNumber", 1)
                  EXCEPT !.head = currentBlock,
                         !.from = [k \in Kinds |-> IF k = "mints" THEN identityFrom
                                                   ELSE IF k = "feedback" THEN reputationFrom ELSE NoBlock],
                         !.to = [k \in Kinds |-> IF k = "mints" THEN identityTo
                                                 ELSE IF k = "feedback" THEN reputationTo ELSE NoBlock],
                         !.cursor0 = [k \in Kinds |-> IF k = "mints" THEN Cursor(identityStateId)
                                                      ELSE IF k = "feedback" THEN Cursor(reputationStateId)
                                                      ELSE NoBlock]]
     IN /\ Step(p, IF identityFrom > currentBlock /\ reputationFrom > currentBlock
                   THEN FinishRun(r1)
                   ELSE IF identityFrom <= identityTo
                        THEN [r1 EXCEPT !.pc = "loop", !.kind = "mints", !.batches = 0,
                                        !.current = identityFrom, !.toBlock = identityTo]
                        ELSE StartFeedback(r1),
                trackCU(gov[p], "eth_blockNumber", 1), "IndexChain")
        /\ touched' = [touched EXCEPT ![<< "mints", chain >>] = @ \cup {identityStateId},
                                      ![<< "feedback", chain >>] = @ \cup {reputationStateId}]
  /\ UNCHANGED << engine, scoring, notify, surface, head, store, runs, faults, interrupts, scanned, startBlock, complete,
                  paySeen, mintSeen >>

\* getBlockNumber (not wrapped in withRetry) or the cursor SELECT throws
IndexChainFail(p) ==
  /\ run[p].pc = "main"
  /\ faults < MaxFaults
  /\ faults' = faults + 1
  /\ \E err \in {"ETIMEDOUT", "HTTP429"} :
       Step(p, Throw(Send(run[p], "eth_blockNumber", 1), err),
            trackCU(gov[p], "eth_blockNumber", 1), "IndexChainFail")
  /\ UNCHANGED << engine, scoring, notify, surface, head, store, runs, interrupts, ghosts >>

\* ------------------------------------------------------------------------
\* The batch loop (indexX402, indexMints, indexFeedback)
\* ------------------------------------------------------------------------
\* while (current <= toBlock) is false
LoopExit(p) ==
  /\ run[p].pc = "loop"
  /\ run[p].current > run[p].toBlock
  /\ Step(p, EndScanner(run[p]), gov[p], "LoopExit")
  /\ UNCHANGED << engine, scoring, notify, surface, head, store, runs, faults, interrupts, ghosts >>

\* if (shouldStop()) break
BudgetStop(p) ==
  /\ run[p].pc = "loop"
  /\ run[p].current <= run[p].toBlock
  /\ shouldStop(gov[p])
  /\ Step(p, EndScanner([run[p] EXCEPT !.stopped = @ \cup {run[p].kind}]), gov[p], "BudgetStop")
  /\ UNCHANGED << engine, scoring, notify, surface, head, store, runs, faults, interrupts, ghosts >>

\* trackCU('eth_getLogs'); withRetry(getLogs(current, batchEnd))
GetLogs(p) ==
  /\ run[p].pc = "loop"
  /\ run[p].current <= run[p].toBlock
  /\ ~shouldStop(gov[p])
  /\ \E res \in Outcomes :
       LET r == run[p]
           s == ScannerOf(p)
           batchEnd == BatchEnd(r)
           logs == SelectRange(ChainLogs(r.kind, ChainOf(p)), r.current, batchEnd)
           r1 == [Send(r, "eth_getLogs", res.attempts)
                    EXCEPT !.batchEnd = batchEnd, !.logs = logs, !.batchOk = TRUE,
                           !.batches = @ + 1,
                           !.clean = @ /\ FaultCost(res) = 0]
       IN /\ faults' = faults + FaultCost(res)
          /\ IF res.ok
             THEN /\ Step(p, IF logs = << >> THEN [r1 EXCEPT !.pc = "commit"]
                             ELSE IF r.kind = "x402"
                                  THEN [r1 EXCEPT !.pc = "receipt", !.txs = DistinctTxHashes(logs, {})]
                                  ELSE [r1 EXCEPT !.pc = "insert"],
                          trackCU(gov[p], "eth_getLogs", 1), "GetLogs")
                  /\ scanned' = [scanned EXCEPT ![s] = @ \cup (r.current..batchEnd)]
                  /\ startBlock' = [startBlock EXCEPT ![s] = IF @ = NoBlock THEN r.current ELSE @]
                  /\ complete' = IF logs = << >>
                                 THEN [complete EXCEPT ![s] = @ \cup (r.current..batchEnd)]
                                 ELSE complete
             ELSE /\ Step(p, Throw(r1, res.err), trackCU(gov[p], "eth_getLogs", 1), "GetLogs")
                  /\ UNCHANGED << scanned, startBlock, complete >>
  /\ UNCHANGED << engine, scoring, notify, surface, head, store, runs, interrupts, touched, paySeen, mintSeen >>

\* ------------------------------------------------------------------------
\* Payment scanner: one transaction hash, one Transfer at a time
\* ------------------------------------------------------------------------
\* the for-loop over txHashes moves on (after sleep(RECEIPT_DELAY_MS)), or the batch is done
AfterTx(r) ==
  IF Tail(r.txs) # << >>
  THEN [r EXCEPT !.txs = Tail(@), !.transfers = << >>, !.idx = 0, !.pc = "receipt"]
  ELSE [r EXCEPT !.txs = << >>, !.transfers = << >>, !.idx = 0, !.pc = "commit"]

\* the for-loop over transfers moves on
NextTransfer(r) ==
  IF Tail(r.transfers) # << >>
  THEN [r EXCEPT !.transfers = Tail(@), !.idx = 0, !.pc = "insert_tx"]
  ELSE AfterTx(r)

\* a batch whose persist phase ends without a failed insert is complete
MarkComplete(p) ==
  complete' =
    IF run[p].pc # "commit" /\ run'[p].pc = "commit" /\ run'[p].batchOk
    THEN [complete EXCEPT ![ScannerOf(p)] = @ \cup (run[p].current..run[p].batchEnd)]
    ELSE complete

\* trackCU('eth_getTransactionReceipt'); withRetry(getTransactionReceipt(txHash))
FetchReceipt(p) ==
  /\ run[p].pc = "receipt"
  /\ \E res \in Outcomes :
       LET r1 == [Send(run[p], "eth_getTransactionReceipt", res.attempts)
                    EXCEPT !.clean = @ /\ FaultCost(res) = 0]
       IN /\ faults' = faults + FaultCost(res)
          /\ Step(p, IF res.ok THEN [r1 EXCEPT !.pc = "gettx"] ELSE Throw(r1, res.err),
                  trackCU(gov[p], "eth_getTransactionReceipt", 1), "FetchReceipt")
  /\ UNCHANGED << engine, scoring, notify, surface, head, store, runs, interrupts, ghosts >>

\* trackCU('eth_getTransaction'); withRetry(getTransaction(txHash)); filter the receipt
FetchTransaction(p) ==
  /\ run[p].pc = "gettx"
  /\ \E res \in Outcomes :
       LET r1 == [Send(run[p], "eth_getTransaction", res.attempts)
                    EXCEPT !.clean = @ /\ FaultCost(res) = 0]
           transfers == FilterTransfers(Receipt(Head(r1.txs)).logs, USDC(ChainOf(p)))
       IN /\ faults' = faults + FaultCost(res)
          /\ Step(p, IF ~res.ok THEN Throw(r1, res.err)
                     ELSE IF transfers = << >> THEN AfterTx(r1)
                     ELSE [r1 EXCEPT !.pc = "insert_tx", !.transfers = transfers, !.idx = 0],
                  trackCU(gov[p], "eth_getTransaction", 1), "FetchTransaction")
  /\ MarkComplete(p)
  /\ UNCHANGED << engine, scoring, notify, surface, head, store, runs, interrupts, scanned, startBlock, touched, paySeen, mintSeen >>

TransactionRow(r, chain) ==
  LET txHash == Head(r.txs)
      t == Head(r.transfers)
      authLog == FindAuthLog(r.logs, txHash)
  IN [tx_hash |-> txHash, block_number |-> Receipt(txHash).blockNumber, chain |-> chain,
      authorizer |-> IF authLog # << >> THEN authLog[1].authorizer ELSE t.from,
      payer |-> t.from, recipient |-> t.to, amount_raw |-> t.data,
      facilitator |-> TxFrom(txHash), is_x402 |-> TxFrom(txHash) \in KNOWN_FACILITATORS]

\* INSERT INTO transactions ... ON CONFLICT (tx_hash, chain) DO NOTHING
InsertTransaction(p) ==
  /\ run[p].pc = "insert_tx"
  /\ transactions' = InsertTransactionRow(transactions, TransactionRow(run[p], ChainOf(p)))
  /\ Step(p, [run[p] EXCEPT !.pc = "upsert", !.idx = 1], gov[p], "InsertTransaction")
  /\ UNCHANGED << engine, scoring, notify, surface, head, indexer_state, wallets, feedback, runs, faults, interrupts, ghosts >>

\* INSERT INTO wallets ... ON CONFLICT (address) DO UPDATE, for payer (idx 1) then recipient (idx 2)
UpsertWallet(p) ==
  /\ run[p].pc = "upsert"
  /\ LET r == run[p]
         t == Head(r.transfers)
         addr == IF r.idx = 1 THEN t.from ELSE t.to
     IN /\ wallets' = UpsertPaymentWallet(wallets, addr, ChainOf(p), Receipt(Head(r.txs)).blockNumber)
        /\ paySeen' = paySeen \cup {addr}
        /\ Step(p, IF r.idx = 1 THEN [r EXCEPT !.idx = 2] ELSE NextTransfer(r), gov[p], "UpsertWallet")
  /\ MarkComplete(p)
  /\ UNCHANGED << engine, scoring, notify, surface, head, indexer_state, transactions, feedback, runs, faults, interrupts,
                  scanned, startBlock, touched, mintSeen >>

\* a statement (or the decoding) of the current Transfer throws: catch, log, next Transfer
TransferFail(p) ==
  /\ run[p].pc \in {"insert_tx", "upsert"}
  /\ faults < MaxFaults
  /\ faults' = faults + 1
  /\ Step(p, NextTransfer([run[p] EXCEPT !.batchOk = FALSE, !.clean = FALSE]), gov[p], "TransferFail")
  /\ MarkComplete(p)
  /\ UNCHANGED << engine, scoring, notify, surface, head, store, runs, interrupts, scanned, startBlock, touched, paySeen, mintSeen >>

\* ------------------------------------------------------------------------
\* Identity and reputation scanners: one bulk statement per batch
\* ------------------------------------------------------------------------
InsertWallets(p) ==
  /\ run[p].pc = "insert"
  /\ run[p].kind = "mints"
  /\ LET rows == DedupeMints(run[p].logs, ChainOf(p), {})
     IN /\ wallets' = UpsertMintRows(wallets, rows)
        /\ mintSeen' = mintSeen \cup {rows[i].address : i \in 1..Len(rows)}
  /\ Step(p, [run[p] EXCEPT !.pc = "commit"], gov[p], "InsertWallets")
  /\ MarkComplete(p)
  /\ UNCHANGED << engine, scoring, notify, surface, head, indexer_state, transactions, feedback, runs, faults, interrupts,
                  scanned, startBlock, touched, paySeen >>

InsertFeedback(p) ==
  /\ run[p].pc = "insert"
  /\ run[p].kind = "feedback"
  /\ feedback' = InsertFeedbackRows(feedback, run[p].logs)
  /\ Step(p, [run[p] EXCEPT !.pc = "commit"], gov[p], "InsertFeedback")
  /\ MarkComplete(p)
  /\ UNCHANGED << engine, scoring, notify, surface, head, indexer_state, wallets, transactions, runs, faults, interrupts,
                  scanned, startBlock, touched, paySeen, mintSeen >>

\* the bulk statement throws: catch, log, "skipping batch"
BulkInsertFail(p) ==
  /\ run[p].pc = "insert"
  /\ faults < MaxFaults
  /\ faults' = faults + 1
  /\ Step(p, [run[p] EXCEPT !.pc = "commit", !.batchOk = FALSE, !.clean = FALSE], gov[p], "BulkInsertFail")
  /\ MarkComplete(p)
  /\ UNCHANGED << engine, scoring, notify, surface, head, store, runs, interrupts, scanned, startBlock, touched, paySeen, mintSeen >>

\* ------------------------------------------------------------------------
\* Cursor commit
\* ------------------------------------------------------------------------
\* (variant: the next window starts one block too far)
AfterCommit_Skip(r) ==
  [r EXCEPT !.pc = "loop", !.current = r.batchEnd + 2, !.logs = << >>]

AfterCommit(r) ==
  [r EXCEPT !.pc = "loop", !.current = r.batchEnd + 1, !.logs = << >>]

\* blocksScanned += ...; upsert of indexer_state (first attempt)
Commit(p) ==
  /\ run[p].pc = "commit"
  /\ LET r == [run[p] EXCEPT !.blocksScanned[run[p].kind] = @ + (run[p].batchEnd - run[p].current + 1)]
         id == StateIdOf(ScannerOf(p))
     IN \/ /\ indexer_state' = UpsertCursor(indexer_state, id, r.batchEnd)
           /\ Step(p, AfterCommit(r), gov[p], "Commit")
           /\ touched' = [touched EXCEPT ![ScannerOf(p)] = @ \cup {id}]
           /\ UNCHANGED faults
        \/ /\ faults < MaxFaults
           /\ faults' = faults + 1
           /\ \E err \in DbErrors :
                Step(p, IF IsTransientDb(err)
                        THEN [r EXCEPT !.pc = "commit_retry", !.clean = FALSE]
                        ELSE Throw(r, err),
                     gov[p], "CommitFail")
           /\ UNCHANGED << indexer_state, touched >>
  /\ UNCHANGED << engine, scoring, notify, surface, head, wallets, transactions, feedback, runs, interrupts,
                  scanned, startBlock, complete, paySeen, mintSeen >>

\* after sleep(3000): the same upsert once more; a second failure is only logged
\* (the outage that failed the first attempt may still last: no new fault is counted)
CommitRetry(p) ==
  /\ run[p].pc = "commit_retry"
  /\ LET r == run[p]
         id == StateIdOf(ScannerOf(p))
     IN \/ /\ indexer_state' = UpsertCursor(indexer_state, id, r.batchEnd)
           /\ touched' = [touched EXCEPT ![ScannerOf(p)] = @ \cup {id}]
           /\ Step(p, AfterCommit(r), gov[p], "CommitRetry")
           /\ UNCHANGED faults
        \/ /\ Step(p, AfterCommit(r), gov[p], "CommitRetryFail")
           /\ UNCHANGED << indexer_state, touched, faults >>
  /\ UNCHANGED << engine, scoring, notify, surface, head, wallets, transactions, feedback, runs, interrupts,
                  scanned, startBlock, complete, paySeen, mintSeen >>

\* ------------------------------------------------------------------------
\* Specification
\* ------------------------------------------------------------------------
Next ==
  \/ \E p \in Procs : Start(p)
  \/ \E p \in Procs : Interrupt(p)
  \/ \E c \in Chains : AdvanceHead(c)
  \/ \E p \in Procs : IndexChainX402(p)
  \/ \E p \in Procs : IndexChainErc(p)
  \/ \E p \in Procs : IndexChainFail(p)
  \/ \E p \in Procs : LoopExit(p)
  \/ \E p \in Procs : BudgetStop(p)
  \/ \E p \in Procs : GetLogs(p)
  \/ \E p \in Procs : FetchReceipt(p)
  \/ \E p \in Procs : FetchTransaction(p)
  \/ \E p \in Procs : InsertTransaction(p)
  \/ \E p \in Procs : UpsertWallet(p)
  \/ \E p \in Procs : TransferFail(p)
  \/ \E p \in Procs : InsertWallets(p)
  \/ \E p \in Procs : InsertFeedback(p)
  \/ \E p \in Procs : BulkInsertFail(p)
  \/ \E p \in Procs : Commit(p)
  \/ \E p \in Procs : CommitRetry(p)

Spec == Init /\ [][Next]_vars

\* ------------------------------------------------------------------------
\* Concurrent runs: the erc8004 program started for two chains at once
\* (`--chain base` and `--chain arbitrum` as two processes), no failures
\* ------------------------------------------------------------------------
ErcProcs == {p \in Procs : Program(p) = "erc8004"}

InitConc ==
  /\ InitBase
  /\ InitEngine
  /\ InitNotify
  /\ InitSurface
  /\ faults = MaxFaults
  /\ interrupts = MaxInterrupts

StartConcurrent(p) ==
  /\ p \in ErcProcs
  /\ StartProcess(p)

NextConc ==
  \/ \E p \in Procs : StartConcurrent(p)
  \/ \E c \in Chains : AdvanceHead(c)
  \/ \E p \in Procs : IndexChainErc(p)
  \/ \E p \in Procs : LoopExit(p)
  \/ \E p \in Procs : BudgetStop(p)
  \/ \E p \in Procs : GetLogs(p)
  \/ \E p \in Procs : InsertWallets(p)
  \/ \E p \in Procs : InsertFeedback(p)
  \/ \E p \in Procs : Commit(p)

SpecConc == InitConc /\ [][NextConc]_vars

\* ------------------------------------------------------------------------
\* The governor on its own: any sequence of trackCU calls and resets
\* ------------------------------------------------------------------------
GovProc == "x402_base"
RecordCounts == {1, 2}

Record(method, count) ==
  /\ gov[GovProc].methodCounts[method] + count <= MaxRecorded
  /\ gov' = [gov EXCEPT ![GovProc] = trackCU(@, method, count)]
  /\ actor' = [proc |-> GovProc, op |-> "trackCU"]
  /\ UNCHANGED << engine, scoring, notify, surface, head, store, run, last, runs, faults, interrupts, ghosts >>

\* resetCUUsage
Reset ==
  /\ gov[GovProc] # FreshGovernor
  /\ gov' = [gov EXCEPT ![GovProc] = FreshGovernor]
  /\ actor' = [proc |-> GovProc, op |-> "resetCUUsage"]
  /\ UNCHANGED << engine, scoring, notify, surface, head, store, run, last, runs, faults, interrupts, ghosts >>

NextGov ==
  \/ \E method \in Methods, count \in RecordCounts : Record(method, count)
  \/ Reset

SpecGov == Init /\ [][NextGov]_vars

\* ------------------------------------------------------------------------
\* The trust score engine on its own: computeScore over signal bundles
\* ------------------------------------------------------------------------
indexer == << head, store, run, gov, last, runs, faults, interrupts, ghosts >>

\* computeScore(signals), reading Date.now()
Compute ==
  /\ outcome.at # now \/ outcome.of # bundle
  /\ outcome' = [at |-> now, of |-> bundle, result |-> computeScore(bundle, now)]
  /\ actor' = [proc |-> "engine", op |-> "computeScore"]
  /\ UNCHANGED << now, bundle, scoring, notify, surface, indexer >>

\* a day passes
Tick ==
  /\ now < Today + MaxDays
  /\ now' = now + 1
  /\ actor' = [proc |-> "none", op |-> "Tick"]
  /\ UNCHANGED << bundle, outcome, scoring, notify, surface, indexer >>

InitScore ==
  /\ InitBase
  /\ InitNotify
  /\ InitSurface
  /\ faults = 0
  /\ interrupts = 0
  /\ now = Today
  /\ \E b \in WalletSignals : bundle = Signals(b)
  /\ outcome = NoOutcome

NextScore == Compute

SpecScore == InitScore /\ [][NextScore]_vars

\* bundles whose dates stay inside the logarithm table while the clock runs
AgingSignals ==
  {b \in WalletSignals :
     /\ b.tx_count = 10 /\ b.unique_counterparties = 5
     /\ b.avg_feedback = 40 /\ b.feedback_count = 10
     /\ b.volume = << 400, 4 >>
     /\ b.first_seen_at \in {NaNDate, Today - 1}}

InitAging ==
  /\ InitBase
  /\ InitNotify
  /\ InitSurface
  /\ faults = 0
  /\ interrupts = 0
  /\ now = Today
  /\ \E b \in AgingSignals : bundle = Signals(b)
  /\ outcome = NoOutcome

NextAging ==
  \/ Compute
  \/ Tick

SpecAging == InitAging /\ [][NextAging]_vars

\* ------------------------------------------------------------------------
\* The scoring pass: main() of the trust score engine
\* ------------------------------------------------------------------------
\* the store as the indexers leave it after `indexer:x402 -- --chain base`
\* and `indexer:erc8004 -- --chain base --limit 5` with the head at block 24
IndexedWallets ==
  ("A" :> [source |-> "x402", chain |-> "base", erc8004_id |-> NoId,
           first_seen_block |-> 13, tx_count |-> 1, needs_rescore |-> TRUE])
  @@ ("B" :> [source |-> "both", chain |-> "base", erc8004_id |-> 1,
              first_seen_block |-> 13, tx_count |-> 2, needs_rescore |-> TRUE])
  @@ ("C" :> [source |-> "x402", chain |-> "base", erc8004_id |-> NoId,
              first_seen_block |-> 13, tx_count |-> 3, needs_rescore |-> TRUE])

IndexedTransactions ==
  << [tx_hash |-> "t1", block_number |-> 13, chain |-> "base", authorizer |-> "A",
      payer |-> "A", recipient |-> "B", amount_raw |-> 5,
      facilitator |-> "F", is_x402 |-> TRUE],
     [tx_hash |-> "t2", block_number |-> 22, chain |-> "base", authorizer |-> "C",
      payer |-> "C", recipient |-> "C", amount_raw |-> 1,
      facilitator |-> "C", is_x402 |-> FALSE] >>

IndexedFeedback ==
  << [tx_hash |-> "f1", feedback_index |-> 0, agent_id |-> 1, client_address |-> "A",
      value |-> 4, block_number |-> 17] >>

IndexedCursors ==
  ("x402_base" :> 24) @@ ("erc8004_identity_base" :> 17) @@ ("erc8004_reputation_base" :> 17)

InitIndexed ==
  /\ head = [c \in Chains |-> IF c = "base" THEN MaxHead ELSE ArbHead]
  /\ indexer_state = IndexedCursors
  /\ wallets = IndexedWallets
  /\ transactions = IndexedTransactions
  /\ feedback = IndexedFeedback
  /\ run = [p \in Procs |-> IdleRun]
  /\ gov = [p \in Procs |-> FreshGovernor]
  /\ last = NoLast
  /\ runs = 0
  /\ faults = 0
  /\ interrupts = 0
  /\ scanned = [s \in Scanners |-> {}]
  /\ startBlock = [s \in Scanners |-> NoBlock]
  /\ touched = [s \in Scanners |-> {}]
  /\ complete = [s \in Scanners |-> {}]
  /\ paySeen = {}
  /\ mintSeen = {}
  /\ actor = [proc |-> "none", op |-> "init"]
  /\ scorer = [q \in ScoreProcs |-> IdleScorer]
  /\ InitEngine

InitScoring ==
  /\ InitIndexed
  /\ scores = << >>
  /\ score_history = << >>
  /\ InitNotify
  /\ InitSurface

frame == << engine, notify, surface, head, indexer_state, transactions, feedback, run, gov, last, ghosts >>

Exit(code) == [IdleScorer EXCEPT !.exit = code]

ScoringTransient(err) == err \in {"ETIMEDOUT", "CONNECTION_CLOSED", "CONNECT_TIMEOUT"}
ScoringErrors == {"ETIMEDOUT", "DBERROR"}

\* the operator or scheduler starts `npm run score [-- --full]`; nothing
\* keeps a second run from starting
StartScoring(q) ==
  /\ scorer[q].pc = "idle"
  /\ runs < MaxPasses
  /\ runs' = runs + 1
  /\ \E full \in BOOLEAN :
       scorer' = [scorer EXCEPT ![q] = [IdleScorer EXCEPT !.pc = "select", !.full = full]]
  /\ actor' = [proc |-> q, op |-> "StartScoring"]
  /\ UNCHANGED << frame, wallets, scores, score_history, faults, interrupts >>

\* const wallets = await sql`SELECT * FROM wallets ...`
Select(q) ==
  /\ scorer[q].pc = "select"
  /\ LET rows == SelectWallets(wallets, scorer[q].full)
     IN scorer' = [scorer EXCEPT ![q] =
                     IF Len(rows) = 0 THEN Exit("0")
                     ELSE [@ EXCEPT !.pc = "aggregate", !.wallets = rows]]
  /\ actor' = [proc |-> q, op |-> "Select"]
  /\ UNCHANGED << frame, wallets, scores, score_history, runs, faults, interrupts >>

\* the four aggregate queries and the in-memory scoring loop
Aggregate(q) ==
  /\ scorer[q].pc = "aggregate"
  /\ scorer' = [scorer EXCEPT ![q] =
                  [@ EXCEPT !.pc = "history", !.i = 0,
                            !.results = ScoreResults(scorer[q].wallets, transactions,
                                                     feedback, wallets, now)]]
  /\ actor' = [proc |-> q, op |-> "Aggregate"]
  /\ UNCHANGED << frame, wallets, scores, score_history, runs, faults, interrupts >>

\* (variant: the snapshot insert is skipped)
InsertHistory_Skipped(q) ==
  /\ scorer[q].pc = "history"
  /\ LET next == scorer[q].i + SCORE_BATCH_SIZE
     IN scorer' = [scorer EXCEPT ![q] =
                     IF next < Len(scorer[q].results) THEN [@ EXCEPT !.i = next]
                     ELSE [@ EXCEPT !.pc = "update", !.i = 0, !.j = 1, !.retries = 3]]
  /\ actor' = [proc |-> q, op |-> "InsertHistory"]
  /\ UNCHANGED << frame, wallets, scores, score_history, runs, faults, interrupts >>

\* INSERT INTO score_history, one statement per batch of results
InsertHistory(q) ==
  /\ scorer[q].pc = "history"
  /\ LET batch == Slice(scorer[q].results, scorer[q].i)
         next == scorer[q].i + SCORE_BATCH_SIZE
     IN /\ score_history' =
             score_history \o [k \in 1 .. Len(batch) |->
                                 [address |-> batch[k].address,
                                  trust_score |-> batch[k].score,
                                  score_breakdown |-> batch[k].breakdown]]
        /\ scorer' = [scorer EXCEPT ![q] =
                        IF next < Len(scorer[q].results) THEN [@ EXCEPT !.i = next]
                        ELSE [@ EXCEPT !.pc = "update", !.i = 0, !.j = 1, !.retries = 3]]
  /\ actor' = [proc |-> q, op |-> "InsertHistory"]
  /\ UNCHANGED << frame, wallets, scores, runs, faults, interrupts >>

\* the insert throws: main().catch -> process.exit(1)
HistoryFail(q) ==
  /\ scorer[q].pc = "history"
  /\ faults < MaxFaults
  /\ faults' = faults + 1
  /\ scorer' = [scorer EXCEPT ![q] = Exit("1")]
  /\ actor' = [proc |-> q, op |-> "HistoryFail"]
  /\ UNCHANGED << frame, wallets, scores, score_history, runs, interrupts >>

\* one UPDATE wallets ... WHERE address = b.address of the current batch;
\* after the last row of the last batch the run reports and ends
UpdateWallet(q) ==
  /\ scorer[q].pc = "update"
  /\ LET r == scorer[q]
         batch == Slice(r.results, r.i)
         b == batch[r.j]
         next == r.i + SCORE_BATCH_SIZE
     IN /\ wallets' = ClearRescore(wallets, b)
        /\ scores' = WriteScore(scores, wallets, b)
        /\ scorer' = [scorer EXCEPT ![q] =
                        IF r.j < Len(batch) THEN [r EXCEPT !.j = r.j + 1]
                        ELSE IF next < Len(r.results)
                             THEN [r EXCEPT !.i = next, !.j = 1, !.retries = 3]
                             ELSE Exit("0")]
  /\ actor' = [proc |-> q, op |-> "UpdateWallet"]
  /\ UNCHANGED << frame, score_history, runs, faults, interrupts >>

\* an UPDATE throws: the batch is retried from its first row while retries
\* are left and the error is a connection error, otherwise the run fails
UpdateFail(q) ==
  /\ scorer[q].pc = "update"
  /\ faults < MaxFaults
  /\ faults' = faults + 1
  /\ \E err \in ScoringErrors :
       scorer' = [scorer EXCEPT ![q] =
                    IF scorer[q].retries - 1 > 0 /\ ScoringTransient(err)
                    THEN [@ EXCEPT !.retries = @ - 1, !.j = 1]
                    ELSE Exit("1")]
  /\ actor' = [proc |-> q, op |-> "UpdateFail"]
  /\ UNCHANGED << frame, wallets, scores, score_history, runs, interrupts >>

\* the operator interrupts the scoring run
InterruptScoring(q) ==
  /\ scorer[q].pc # "idle"
  /\ interrupts < MaxInterrupts
  /\ interrupts' = interrupts + 1
  /\ scorer' = [scorer EXCEPT ![q] = Exit("killed")]
  /\ actor' = [proc |-> q, op |-> "Interrupt"]
  /\ UNCHANGED << frame, wallets, scores, score_history, runs, faults >>

NextScoring ==
  \/ \E q \in ScoreProcs : StartScoring(q)
  \/ \E q \in ScoreProcs : Select(q)
  \/ \E q \in ScoreProcs : Aggregate(q)
  \/ \E q \in ScoreProcs : InsertHistory(q)
  \/ \E q \in ScoreProcs : HistoryFail(q)
  \/ \E q \in ScoreProcs : UpdateWallet(q)
  \/ \E q \in ScoreProcs : UpdateFail(q)
  \/ \E q \in ScoreProcs : InterruptScoring(q)

SpecScoring == InitScoring /\ [][NextScoring]_vars

\* ------------------------------------------------------------------------
\* The notification dispatcher (spec section 4.7); its program is not among
\* the sources, which hold only the webhooks table and its registration
\* ------------------------------------------------------------------------
EventTypes == {"score_change", "score_drop", "score_rise"}
MAX_DELIVERY_ATTEMPTS == 3
MAX_CONSECUTIVE_FAILURES == 2

\* step 2 and the second bullet of step 3: the sign of delta = new - old
\* against the event kind; with no prior score only score_change fires
(* variant: score_drop also fires on an unchanged score *)
DirectionMatches_DropOrEqual(event_type, old, new) ==
  IF old = NoScore THEN event_type = "score_change"
  ELSE CASE event_type = "score_drop" -> new - old <= 0
         [] event_type = "score_rise" -> new - old > 0
         [] OTHER -> new - old # 0

DirectionMatches(event_type, old, new) ==
  IF old = NoScore THEN event_type = "score_change"
  ELSE CASE event_type = "score_drop" -> new - old < 0
         [] event_type = "score_rise" -> new - old > 0
         [] OTHER -> new - old # 0

\* third bullet of step 3: old and new on opposite sides of t (below t, or at
\* t and above) in the event's direction
ThresholdCrossed(event_type, t, old, new) ==
  /\ old # NoScore
  /\ CASE event_type = "score_drop" -> old >= t /\ new < t
       [] event_type = "score_rise" -> old < t /\ new >= t
       [] OTHER -> (old >= t /\ new < t) \/ (old < t /\ new >= t)

Matches(w, address, old, new) ==
  /\ w.wallet_address # NoWallet => w.wallet_address = address
  /\ DirectionMatches(w.event_type, old, new)
  /\ w.threshold # NoThreshold => ThresholdCrossed(w.event_type, w.threshold, old, new)

\* step 1: the snapshot before the latest one of the address
SnapshotsOf(h, a) == SelectSeq(h, LAMBDA r : r.address = a)
PreviousSnapshot(h, a) ==
  LET rows == SnapshotsOf(h, a)
  IN IF Len(rows) < 2 THEN NoScore ELSE rows[Len(rows) - 1].trust_score

\* the wallets updated since the dispatcher last ran, with old and new score
UpdatedSince(h, mark) == { h[k].address : k \in (mark + 1) .. Len(h) }
Changes(h, sc, mark) ==
  LET rows == SelectSeq(AddressOrder,
                        LAMBDA a : a \in UpdatedSince(h, mark) /\ a \in DOMAIN sc)
  IN [k \in 1 .. Len(rows) |->
        [address |-> rows[k], old_score |-> PreviousSnapshot(h, rows[k]),
         new_score |-> sc[rows[k]].trust_score]]

ActiveHooks(ws) == SelectSeq(ws, LAMBDA w : w.is_active)

Payload(w, c) ==
  [id |-> w.id, event |-> w.event_type, address |-> c.address,
   old_score |-> c.old_score, new_score |-> c.new_score, threshold |-> w.threshold]

\* delivery metadata: consecutive failures, and the disabling of the webhook
RecordDelivery(ws, id, ok) ==
  [k \in 1 .. Len(ws) |->
     IF ws[k].id # id THEN ws[k]
     ELSE IF ok THEN [ws[k] EXCEPT !.failures = 0]
     ELSE [ws[k] EXCEPT !.failures = @ + 1,
                        !.is_active = @ /\ ws[k].failures + 1 <= MAX_CONSECUTIVE_FAILURES]]

(* variant: the dispatcher ends after the webhooks of the first wallet *)
Advance_FirstWalletOnly(d) ==
  IF d.k < Len(d.hooks) THEN [d EXCEPT !.pc = "match", !.k = d.k + 1, !.attempt = 0]
  ELSE [IdleDispatcher EXCEPT !.mark = d.mark]

\* the dispatcher moves on to the next webhook, the next wallet, or ends
Advance(d) ==
  IF d.k < Len(d.hooks) THEN [d EXCEPT !.pc = "match", !.k = d.k + 1, !.attempt = 0]
  ELSE IF Len(d.pending) > 1
       THEN [d EXCEPT !.pc = "match", !.k = 1, !.attempt = 0, !.pending = Tail(d.pending)]
       ELSE [IdleDispatcher EXCEPT !.mark = d.mark]

PassCompleted ==
  /\ \A q \in ScoreProcs : scorer[q].pc = "idle"
  /\ \E q \in ScoreProcs : scorer[q].exit = "0"

dispatchFrame == << engine, surface, head, store, run, gov, last, ghosts, runs, faults,
                    interrupts, scoring >>

\* "Invoked after each scoring pass": reads the active webhooks and the
\* wallets the pass updated
StartDispatch ==
  /\ dispatcher.pc = "idle"
  /\ PassCompleted
  /\ Len(score_history) > dispatcher.mark
  /\ LET hooks == ActiveHooks(webhooks)
         pending == Changes(score_history, scores, dispatcher.mark)
     IN dispatcher' =
          IF Len(hooks) = 0 \/ Len(pending) = 0
          THEN [IdleDispatcher EXCEPT !.mark = Len(score_history)]
          ELSE [pc |-> "match", mark |-> Len(score_history), hooks |-> hooks,
                pending |-> pending, k |-> 1, attempt |-> 0]
  /\ actor' = [proc |-> "dispatcher", op |-> "StartDispatch"]
  /\ UNCHANGED << dispatchFrame, webhooks, posts >>

\* step 3 for the current wallet and webhook
Match ==
  /\ dispatcher.pc = "match"
  /\ LET c == Head(dispatcher.pending)
         w == dispatcher.hooks[dispatcher.k]
     IN dispatcher' =
          IF Matches(w, c.address, c.old_score, c.new_score)
          THEN [dispatcher EXCEPT !.pc = "post", !.attempt = 1]
          ELSE Advance(dispatcher)
  /\ actor' = [proc |-> "dispatcher", op |-> "Match"]
  /\ UNCHANGED << dispatchFrame, webhooks, posts >>

\* step 4: one POST attempt; 2xx ends the delivery, a failure is retried
\* until the attempts are used up
Post ==
  /\ dispatcher.pc = "post"
  /\ LET c == Head(dispatcher.pending)
         w == dispatcher.hooks[dispatcher.k]
     IN /\ posts' = posts \cup {Payload(w, c)}
        /\ \E ok \in BOOLEAN :
             IF ok \/ dispatcher.attempt >= MAX_DELIVERY_ATTEMPTS
             THEN /\ webhooks' = RecordDelivery(webhooks, w.id, ok)
                  /\ dispatcher' = Advance(dispatcher)
             ELSE /\ webhooks' = webhooks
                  /\ dispatcher' = [dispatcher EXCEPT !.attempt = @ + 1]
  /\ actor' = [proc |-> "dispatcher", op |-> "Post"]
  /\ UNCHANGED dispatchFrame

\* the scheduler starts a scoring pass once the dispatcher has run for the
\* pass before it
StartPass ==
  /\ dispatcher.pc = "idle"
  /\ dispatcher.mark = Len(score_history)
  /\ StartScoring("score_1")

\* webhooks registered before the pass: one of each shape, and one on the
\* drops of wallet C
HookShapes ==
  [id : {1}, wallet_address : {NoWallet, "A", "B"}, event_type : EventTypes,
   threshold : {NoThreshold, 23, 50}, is_active : BOOLEAN, failures : {0}]
HookOnC ==
  [id |-> 2, wallet_address |-> "C", event_type |-> "score_drop",
   threshold |-> NoThreshold, is_active |-> TRUE, failures |-> 0]

\* the snapshots and scores an earlier pass left behind
PriorScores == [A : {NoScore, 10, 22, 23, 85}, B : {NoScore, 10, 50}, C : {85}]
PriorRows(prior) ==
  LET scored == SelectSeq(AddressOrder, LAMBDA a : prior[a] # NoScore)
  IN [k \in 1 .. Len(scored) |->
        [address |-> scored[k], trust_score |-> prior[scored[k]],
         score_breakdown |-> NoOutcome.result.breakdown]]
PriorColumns(prior) ==
  [a \in {x \in DOMAIN prior : prior[x] # NoScore} |->
     [trust_score |-> prior[a], score_breakdown |-> NoOutcome.result.breakdown,
      role |-> "null"]]

InitDispatch ==
  /\ InitIndexed
  /\ InitSurface
  /\ \E prior \in PriorScores :
       /\ score_history = PriorRows(prior)
       /\ scores = PriorColumns(prior)
       /\ dispatcher = [IdleDispatcher EXCEPT !.mark = Len(PriorRows(prior))]
  /\ \E w \in HookShapes : webhooks = << w, HookOnC >>
  /\ posts = {}

NextDispatch ==
  \/ StartPass
  \/ Select("score_1")
  \/ Aggregate("score_1")
  \/ InsertHistory("score_1")
  \/ UpdateWallet("score_1")
  \/ StartDispatch
  \/ Match
  \/ Post

\* the dispatcher is a process of its own: once a pass has completed it is
\* invoked, and it runs to its end
Dispatch == StartDispatch \/ Match \/ Post

SpecDispatch ==
  /\ InitDispatch
  /\ [][NextDispatch]_vars
  /\ WF_vars(Dispatch)

\* ------------------------------------------------------------------------
\* Read surfaces: the tier reported for a stored trust_score
\* ------------------------------------------------------------------------
(* variant: the boundaries are exclusive *)
computeTier_Exclusive(score) ==
  IF score > 80 THEN "HIGH"
  ELSE IF score > 50 THEN "MEDIUM"
  ELSE IF score > 20 THEN "LOW" ELSE "MINIMAL"

\* worker.ts, used by POST /wallets/batch-scores
computeTier(score) ==
  IF score >= 80 THEN "HIGH"
  ELSE IF score >= 50 THEN "MEDIUM"
  ELSE IF score >= 20 THEN "LOW" ELSE "MINIMAL"

\* worker.ts, GET /score/:address
scoreHandlerTier(trust_score) ==
  IF trust_score = NoScore THEN "null"
  ELSE IF trust_score >= 80 THEN "HIGH"
  ELSE IF trust_score >= 50 THEN "MEDIUM"
  ELSE IF trust_score >= 20 THEN "LOW" ELSE "MINIMAL"

\* MCP tool get_trust_score
tierLabel(trust_score) ==
  IF trust_score = NoScore THEN "null"
  ELSE IF trust_score >= 80 THEN "HIGH"
  ELSE IF trust_score >= 50 THEN "MEDIUM"
  ELSE IF trust_score >= 20 THEN "LOW" ELSE "MINIMAL"

\* dashboard lib/utils.ts
scoreToTier(score) ==
  IF score >= 80 THEN "HIGH"
  ELSE IF score >= 50 THEN "MEDIUM"
  ELSE IF score >= 20 THEN "LOW"
  ELSE "MINIMAL"

TierSurfaces == {"batch-scores", "score", "get_trust_score", "dashboard"}

TierOn(s, trust_score) ==
  CASE s = "batch-scores" -> IF trust_score = NoScore THEN "null" ELSE computeTier(trust_score)
    [] s = "score" -> scoreHandlerTier(trust_score)
    [] s = "get_trust_score" -> tierLabel(trust_score)
    [] s = "dashboard" -> scoreToTier(trust_score)

\* the trust_score column is an integer in [0,100] or null
StoredScores == (0 .. 100) \cup {NoScore}

surfaceFrame == << engine, notify, scoring, indexer >>

\* a client asks a surface about a wallet whose stored score is trust_score
AskTier ==
  /\ \E s \in TierSurfaces, score \in StoredScores :
       /\ s = "dashboard" => score # NoScore
       /\ request' = [surface |-> s, trust_score |-> score]
  /\ response' = NoResponse
  /\ actor' = [proc |-> "client", op |-> "AskTier"]
  /\ UNCHANGED surfaceFrame

ReportTier ==
  /\ request.surface \in TierSurfaces
  /\ response = NoResponse
  /\ response' = [surface |-> request.surface,
                  tier |-> TierOn(request.surface, request.trust_score)]
  /\ actor' = [proc |-> request.surface, op |-> "ReportTier"]
  /\ UNCHANGED << surfaceFrame, request >>

NextTier ==
  \/ AskTier
  \/ ReportTier

SpecTier == Init /\ [][NextTier]_vars

\* ------------------------------------------------------------------------
\* The client library (sdk): address validation before any request
\* ------------------------------------------------------------------------
\* a string is the sequence of its characters
Digits == {"0", "1", "2", "3", "4", "5", "6", "7", "8", "9"}
HexChars == Digits \cup {"a", "b", "c", "d", "e", "f", "A", "B", "C", "D", "E", "F"}
ADDRESS_HEX_CHARS == 40

(* variant: the pattern is not anchored at the end *)
ETH_ADDRESS_RE_Unanchored(address) ==
  /\ Len(address) >= 2 + ADDRESS_HEX_CHARS
  /\ address[1] = "0"
  /\ address[2] = "x"
  /\ \A i \in 3 .. (2 + ADDRESS_HEX_CHARS) : address[i] \in HexChars

\* /^0x[a-fA-F0-9]{40}$/.test(address)
ETH_ADDRESS_RE(address) ==
  /\ Len(address) = 2 + ADDRESS_HEX_CHARS
  /\ address[1] = "0"
  /\ address[2] = "x"
  /\ \A i \in 3 .. (2 + ADDRESS_HEX_CHARS) : address[i] \in HexChars

toLowerCase(str) ==
  [i \in 1 .. Len(str) |->
     CASE str[i] = "A" -> "a" [] str[i] = "B" -> "b" [] str[i] = "C" -> "c"
       [] str[i] = "D" -> "d" [] str[i] = "E" -> "e" [] str[i] = "F" -> "f"
       [] str[i] = "X" -> "x" [] str[i] = "Z" -> "z"
       [] OTHER -> str[i]]

AgentKarmaError == "AgentKarmaError"

\* assertAddress: the lowercased address, or the error thrown
assertAddress(address) ==
  IF ~ ETH_ADDRESS_RE(address)
  THEN [threw |-> AgentKarmaError, value |-> << >>]
  ELSE [threw |-> "none", value |-> toLowerCase(address)]

\* addresses.map(assertAddress): the first throw ends the map
RECURSIVE MapAssert(_)
MapAssert(addresses) ==
  IF Len(addresses) = 0 THEN [threw |-> "none", value |-> << >>]
  ELSE LET first == assertAddress(Head(addresses))
       IN IF first.threw # "none" THEN first
          ELSE LET rest == MapAssert(Tail(addresses))
               IN IF rest.threw # "none" THEN rest
                  ELSE [threw |-> "none", value |-> << first.value >> \o rest.value]

SdkMethods == {"getScore", "isHighTrust", "meetsThreshold", "lookupWallet",
               "getTransactions", "batchScores", "getScoreHistory", "submitFeedback"}

\* the request a method sends once its address has passed
SdkRequest(method, value) ==
  CASE method \in {"getScore", "isHighTrust", "meetsThreshold"} ->
         [verb |-> "GET", path |-> "/score/", address |-> value[1]]
    [] method = "lookupWallet" -> [verb |-> "GET", path |-> "/wallet/", address |-> value[1]]
    [] method = "getTransactions" ->
         [verb |-> "GET", path |-> "/wallet/transactions", address |-> value[1]]
    [] method = "getScoreHistory" ->
         [verb |-> "GET", path |-> "/wallet/score-history", address |-> value[1]]
    [] method = "batchScores" ->
         [verb |-> "POST", path |-> "/wallets/batch-scores", address |-> value]
    [] method = "submitFeedback" -> [verb |-> "POST", path |-> "/feedback", address |-> value[1]]

\* the call up to its first fetch
SdkCall(method, addresses) ==
  LET checked == IF method = "batchScores" THEN MapAssert(addresses)
                 ELSE MapAssert(<< addresses[1] >>)
  IN IF checked.threw # "none"
     THEN [surface |-> "sdk", threw |-> checked.threw, status |-> 0, requests |-> << >>]
     ELSE [surface |-> "sdk", threw |-> "none", status |-> 200,
           requests |-> << SdkRequest(method, checked.value) >>]

Repeat(c, n) == [i \in 1 .. n |-> c]
Replace(str, pos, c) == [i \in 1 .. Len(str) |-> IF i = pos THEN c ELSE str[i]]

\* address arguments: bodies one character short, exact and one too long,
\* with a non-hex character at either end, behind good and bad prefixes;
\* and the strings the test-suite passes
AddressInputs ==
  { prefix \o Replace(Repeat(c, n), pos, b) :
      prefix \in {<< "0", "x" >>, << "0", "X" >>, << "x", "0" >>, << >>},
      c \in {"a", "F", "7"},
      n \in {ADDRESS_HEX_CHARS - 1, ADDRESS_HEX_CHARS, ADDRESS_HEX_CHARS + 1},
      pos \in {0, 1, ADDRESS_HEX_CHARS},
      b \in {"g", "-", "Z"} }
  \cup { << >>,
         << "0", "x", "i", "n", "v", "a", "l", "i", "d" >>,
         << "n", "o", "t", "-", "a", "n", "-", "a", "d", "d", "r", "e", "s", "s" >> }

VALID_ADDRESS == << "0", "x" >> \o Repeat("a", ADDRESS_HEX_CHARS)

\* one call of one client
CallSdk ==
  /\ request = NoRequest
  /\ \E method \in SdkMethods, a \in AddressInputs, more \in {<< >>, << VALID_ADDRESS >>} :
       /\ method # "batchScores" => more = << >>
       /\ request' = [surface |-> "sdk", method |-> method, addresses |-> more \o << a >>]
  /\ response' = NoResponse
  /\ actor' = [proc |-> "client", op |-> "CallSdk"]
  /\ UNCHANGED surfaceFrame

SdkReturn ==
  /\ request.surface = "sdk"
  /\ response = NoResponse
  /\ response' = SdkCall(request.method, request.addresses)
  /\ actor' = [proc |-> "sdk", op |-> "SdkReturn"]
  /\ UNCHANGED << surfaceFrame, request >>

NextSdk ==
  \/ CallSdk
  \/ SdkReturn

SpecSdk == Init /\ [][NextSdk]_vars

\* ------------------------------------------------------------------------
\* The payment indexer and the scoring engine at the same time: two
\* processes on one database, nothing orders their statements (no failures)
\* ------------------------------------------------------------------------
PayProc == "x402_base"
PassProc == "score_1"

InitRace ==
  /\ InitBase
  /\ InitEngine
  /\ InitNotify
  /\ InitSurface
  /\ faults = MaxFaults
  /\ interrupts = MaxInterrupts

NextRace ==
  \/ Start(PayProc)
  \/ AdvanceHead(ChainOf(PayProc))
  \/ IndexChainX402(PayProc)
  \/ LoopExit(PayProc)
  \/ GetLogs(PayProc)
  \/ FetchReceipt(PayProc)
  \/ FetchTransaction(PayProc)
  \/ InsertTransaction(PayProc)
  \/ UpsertWallet(PayProc)
  \/ Commit(PayProc)
  \/ StartScoring(PassProc)
  \/ Select(PassProc)
  \/ Aggregate(PassProc)
  \/ InsertHistory(PassProc)
  \/ UpdateWallet(PassProc)

SpecRace == InitRace /\ [][NextRace]_vars

\* ------------------------------------------------------------------------
\* Runs in which every RPC and store call returns: one program at a time,
\* no failure, no interrupt; a call that is made is eventually answered
\* ------------------------------------------------------------------------
ScannerStep(p) ==
  \/ IndexChainX402(p)
  \/ IndexChainErc(p)
  \/ LoopExit(p)
  \/ BudgetStop(p)
  \/ GetLogs(p)
  \/ FetchReceipt(p)
  \/ FetchTransaction(p)
  \/ InsertTransaction(p)
  \/ UpsertWallet(p)
  \/ InsertWallets(p)
  \/ InsertFeedback(p)
  \/ Commit(p)

NextReturns ==
  \/ \E p \in Procs : Start(p)
  \/ \E c \in Chains : AdvanceHead(c)
  \/ \E p \in Procs : ScannerStep(p)

SpecReturns ==
  InitConc /\ [][NextReturns]_vars /\ WF_vars(\E p \in Procs : ScannerStep(p))

\* ------------------------------------------------------------------------
\* withRetry on its own: a wrapped call that behaves in any way on each of
\* its invocations
\* ------------------------------------------------------------------------
CallResults ==
  {"ok", "HTTP429", "HTTP502", "HTTP503", "ETIMEDOUT", "ECONNRESET", "UND_ERR_SOCKET",
   "HTTP400", "HTTP404", "DECODE"}

CallScripts == [1 .. MaxRetries -> CallResults]

CallWithRetry ==
  /\ \E script \in CallScripts : request' = [surface |-> "withRetry", script |-> script]
  /\ response' = NoResponse
  /\ actor' = [proc |-> "indexer", op |-> "CallWithRetry"]
  /\ UNCHANGED surfaceFrame

ReturnWithRetry ==
  /\ request.surface = "withRetry"
  /\ response = NoResponse
  /\ response' = [surface |-> "withRetry"] @@ withRetry(request.script)
  /\ actor' = [proc |-> "indexer", op |-> "ReturnWithRetry"]
  /\ UNCHANGED << surfaceFrame, request >>

NextRetry ==
  \/ CallWithRetry
  \/ ReturnWithRetry

SpecRetry == Init /\ [][NextRetry]_vars

\* ========================================================================
\* Properties
\* ========================================================================
\* C1 (as claimed, payment scanner): when a run has just read its cursor, it
\* starts at last_block + 1, every block from the scanner's first block up to
\* the cursor has been scanned, and the blocks it is about to scan again fit
\* in one batch (at most the one in-flight batch is scanned twice).
C1_ResumeRescansOneBatch ==
  \A p \in Procs :
    (run[p].kind = "x402" /\ run[p].pc = "loop" /\ run[p].batches = 0) =>
      LET s == ScannerOf(p)
          c == Cursor(StateIdOf(s))
      IN /\ c # NoBlock => run[p].current = c + 1
         /\ (c # NoBlock /\ startBlock[s] # NoBlock) =>
              \A b \in startBlock[s]..c : b \in scanned[s]
         /\ \A b \in scanned[s] : b < run[p].current + BATCH_SIZE

\* C2 (as claimed): no step lowers the last_block of any cursor row, and no
\* cursor row disappears.
C2_CursorNeverDecreases ==
  [][\A id \in DOMAIN indexer_state :
       id \in DOMAIN indexer_state' /\ indexer_state'[id] >= indexer_state[id]]_vars

\* C3: an insert statement that re-processes events of a block range the same
\* scanner has already persisted completely adds no row to transactions,
\* feedback or wallets.
InsertOps == {"InsertTransaction", "UpsertWallet", "InsertWallets", "InsertFeedback"}

Reprocessing(p) ==
  \/ /\ run[p].pc \in {"insert_tx", "upsert"}
     /\ Receipt(Head(run[p].txs)).blockNumber \in complete[ScannerOf(p)]
  \/ /\ run[p].pc = "insert"
     /\ (run[p].current..run[p].batchEnd) \subseteq complete[ScannerOf(p)]

C3_ReprocessingAddsNoRow ==
  [][\A p \in Procs :
       (Reprocessing(p) /\ actor'.proc = p /\ actor'.op \in InsertOps) =>
         /\ DOMAIN wallets' = DOMAIN wallets
         /\ Len(transactions') = Len(transactions)
         /\ Len(feedback') = Len(feedback)]_vars

C3_Witness ==
  \E p \in Procs :
    /\ actor = [proc |-> p, op |-> "InsertTransaction"]
    /\ run[p].pc = "upsert"
    /\ Receipt(Head(run[p].txs)).blockNumber \in complete[ScannerOf(p)]
    /\ Len(transactions) > 0

\* C4 (as claimed): re-processing a payment batch whose rows were already
\* persisted leaves every wallet's tx_count as it was.
C4_RedoKeepsTxCount ==
  [][\A p \in Procs :
       (Reprocessing(p) /\ actor'.proc = p /\ actor'.op = "UpsertWallet") =>
         \A a \in DOMAIN wallets : wallets'[a].tx_count = wallets[a].tx_count]_vars

\* C5 (as claimed): no two distinct (event-source, chain) scanners ever read
\* or write the same cursor id.
C5_CursorsAreOwned ==
  \A s1 \in Scanners, s2 \in Scanners :
    s1 # s2 => touched[s1] \cap touched[s2] = {}

\* C6: a scanner that finds the budget flag set at the top of its batch loop
\* (and the rest of that run) sends no request, writes nothing to the store,
\* leaves the loop, and the run ends with exit code 0.
C6_BudgetStopIsClean ==
  [][\A p \in Procs :
       ( /\ actor'.proc = p
         /\ actor'.op # "Interrupt"
         /\ \/ run[p].pc = "loop" /\ run[p].current <= run[p].toBlock /\ gov[p].budgetExceeded
            \/ run[p].stopped # {} ) =>
         /\ store' = store
         /\ \/ run'[p].pc = "idle" /\ last'.r.exit = "0" /\ last'.r.stopped # {}
            \/ /\ run'[p].pc = "loop"
               /\ run'[p].kind # run[p].kind
               /\ run[p].kind \in run'[p].stopped
               /\ gov'[p] = gov[p]]_vars

C6_Witness ==
  /\ actor.op = "BudgetStop"
  /\ last.proc = actor.proc
  /\ last.r.exit = "0"
  /\ Cursor(StateIdOf(<< "feedback", ChainOf(last.proc) >>)) < last.r.to["feedback"]

\* C7: without a reset, once the stop flag is set every later trackCU call
\* leaves it set.
C7_StopFlagIsOneWay ==
  [][(gov[GovProc].budgetExceeded /\ actor'.op # "resetCUUsage") =>
       gov'[GovProc].budgetExceeded]_vars

C7_Witness ==
  /\ gov[GovProc].budgetExceeded
  /\ actor.op = "trackCU"
  /\ gov[GovProc].sessionCUs * 10 >= 9 * MONTHLY_CU_BUDGET + 10 * 2 * 75

\* C8: a wallet row is never removed, and its source either stays or goes
\* from erc8004 or x402 to both.
C8_SourceOnlyPromotes ==
  [][\A a \in DOMAIN wallets :
       /\ a \in DOMAIN wallets'
       /\ \/ wallets'[a].source = wallets[a].source
          \/ wallets[a].source \in {"erc8004", "x402"} /\ wallets'[a].source = "both"]_vars

C8_Witness ==
  \E a \in DOMAIN wallets :
    /\ wallets[a].source = "both"
    /\ wallets[a].chain = "arbitrum"
    /\ actor.op = "UpsertWallet"

\* C9: a wallet has source both exactly when a mint upsert and a payment
\* upsert have both touched it.
C9_BothIffSeenByBoth ==
  \A a \in DOMAIN wallets :
    wallets[a].source = "both" <=> (a \in mintSeen /\ a \in paySeen)

C9_Witness ==
  /\ "C" \in DOMAIN wallets
  /\ wallets["C"].source = "both"
  /\ wallets["C"].chain = "base"
  /\ wallets["C"].erc8004_id = 7
  /\ \E a \in DOMAIN wallets : wallets[a].source = "both" /\ wallets[a].tx_count = 1 /\ a # "C"

\* C10 (as claimed): a clean run of the payment scanner that started from
\* cursor c with --limit N has scanned at most N blocks and leaves the cursor
\* at min(head, c + N).
C10_LimitCapsTheRun ==
  ( /\ last.proc # "none"
    /\ last.r.exit = "0"
    /\ last.r.clean
    /\ last.r.stopped = {}
    /\ last.r.limit # NoLimit
    /\ last.r.cursor0["x402"] # NoBlock ) =>
    /\ last.r.blocksScanned["x402"] <= last.r.limit
    /\ Cursor(X402StateId(ChainOf(last.proc)))
         = Min(last.r.head, last.r.cursor0["x402"] + last.r.limit)

\* ------------------------------------------------------------------------
\* Trust score engine
\* ------------------------------------------------------------------------
Computed == outcome.at # NaNDate

\* C11: whatever the signal bundle, the score computeScore returns is an
\* integer between 0 and 100.
C11_ScoreInRange ==
  Computed => outcome.result.score \in 0 .. 100

C11_Witness ==
  /\ Computed
  /\ outcome.result.score = 0
  /\ outcome.result.shapers.feedback < 0
  /\ outcome.of.is_registered

\* C12 (as claimed): each of the seven shapers returns a value between 0 and
\* 100 points for every input.
C12_ShapersInRange ==
  Computed => \A k \in Shapers : outcome.result.shapers[k] \in 0 .. 100000

\* C13 (as claimed): the score of a registered wallet is min(100, the score
\* of the same bundle unregistered + 5).
C13_BonusIsPlusFiveCapped ==
  (Computed /\ outcome.of.is_registered) =>
    outcome.result.score
      = Min(100, computeScore([outcome.of EXCEPT !.is_registered = FALSE], outcome.at).score + 5)

\* C14 (as claimed): loyaltyScore is at most 40 when tx_count / counterparties
\* > 20 with fewer than 3 counterparties, and with 3 or more counterparties it
\* is min(100, 25 * (tx_count / counterparties - 1)).
C14_LoyaltyAsClaimed ==
  Computed =>
    LET tx == outcome.of.tx_count
        cp == outcome.of.unique_counterparties
        loyalty == outcome.result.shapers.loyalty
    IN /\ (cp \in {1, 2} /\ tx > 20 * cp) => loyalty <= 40000
       /\ cp >= 3 => loyalty = Min(100000, RoundDiv(25000 * (tx - cp), cp))

\* C14 (amended): as claimed, the formula for 3 or more counterparties
\* holding when tx_count >= 2; with tx_count <= 1 the result is 0.
C14_Loyalty ==
  Computed =>
    LET tx == outcome.of.tx_count
        cp == outcome.of.unique_counterparties
        loyalty == outcome.result.shapers.loyalty
    IN /\ (cp \in {1, 2} /\ tx > 20 * cp) => loyalty <= 40000
       /\ (cp >= 3 /\ tx >= 2) => loyalty = Min(100000, RoundDiv(25000 * (tx - cp), cp))
       /\ tx <= 1 => loyalty = 0
       /\ (tx = 60 /\ cp = 3) => loyalty = 100000
       /\ (tx = 50 /\ cp = 10) => loyalty = 100000
       /\ (tx = 10 /\ cp = 5) => loyalty = 25000

C14_Witness ==
  /\ Computed
  /\ outcome.of.tx_count = 43
  /\ outcome.of.unique_counterparties = 2
  /\ outcome.result.shapers.loyalty = 40000

\* C15: feedbackScore is 50 when there is no feedback, and otherwise
\* c * min(100, 20 * avg) + (1 - c) * 50 with c = min(1, count / 10).
C15_FeedbackConfidence ==
  Computed =>
    LET avg == outcome.of.avg_feedback
        count == outcome.of.feedback_count
        fb == outcome.result.shapers.feedback
        c10 == IF count < 10 THEN count ELSE 10
        raw == IF 2000 * avg < 100000 THEN 2000 * avg ELSE 100000
    IN /\ (count = 0 \/ avg = NullAvg) => fb = 50000
       /\ (count > 0 /\ avg # NullAvg) => 10 * fb = c10 * raw + (10 - c10) * 50000
       /\ (avg = 50 /\ count = 1) => fb = 55000
       /\ (avg = 50 /\ count = 10) => fb = 100000
       /\ (avg = 0 /\ count = 10) => fb = 0

C15_Witness ==
  /\ Computed
  /\ outcome.of.avg_feedback = 50
  /\ outcome.of.feedback_count = 1
  /\ outcome.result.shapers.feedback = 55000

\* C16: recencyScore is 100 up to 7 days since last_seen_at (and for future
\* dates), 0 from 90 days on, linear in between, and a later computation
\* never returns more than an earlier one.
RecencyShape(o) ==
  LET days == o.at - o.of.last_seen_at
      r == o.result.shapers.recency
  IN /\ days <= 7 => r = 100000
     /\ days >= 90 => r = 0
     /\ (7 < days /\ days < 90) =>
          /\ 83 * (100000 - r) - 100000 * (days - 7) \in -42 .. 42
          /\ 0 < r /\ r < 100000

C16_RecencyDecays ==
  [][(outcome' # outcome /\ outcome'.of.last_seen_at # NaNDate) =>
       /\ RecencyShape(outcome')
       /\ Computed =>
            /\ outcome'.at > outcome.at
            /\ outcome'.result.shapers.recency <= outcome.result.shapers.recency
            /\ (outcome.at - outcome.of.last_seen_at \in 7 .. 89) =>
                 outcome'.result.shapers.recency < outcome.result.shapers.recency]_vars

C16_Witness ==
  /\ Computed
  /\ outcome.at - outcome.of.last_seen_at = 51
  /\ outcome.result.breakdown.recency = 47
  /\ now = outcome.at + 3

\* C17 (as claimed): the weighted sum of the persisted integer breakdown
\* values, rounded, plus registered_bonus, clamped to [0,100], is the score.
C17_BreakdownRecomposes ==
  Computed =>
    LET b == outcome.result.breakdown
        sum == b.loyalty * WEIGHTS.loyalty + b.activity * WEIGHTS.activity
               + b.diversity * WEIGHTS.diversity + b.feedback * WEIGHTS.feedback
               + b.volume * WEIGHTS.volume + b.recency * WEIGHTS.recency
               + b.age * WEIGHTS.age
    IN outcome.result.score = Max(0, Min(100, RoundDiv(sum, 100) + b.registered_bonus))

\* the addresses of the rows a scoring run holds in its local `wallets`
SelectedBy(q) == { scorer[q].wallets[k].address : k \in 1 .. Len(scorer[q].wallets) }

HistoryOf(h, a) == SelectSeq(h, LAMBDA r : r.address = a)

\* C18: a scoring pass selects exactly the wallets with needs_rescore = true
\* (every wallet under --full); each of its steps leaves the wallet row, the
\* written score and the history of every wallet outside that selection
\* untouched; each wallet update writes the score of a selected wallet and
\* clears its needs_rescore; a pass that finishes has snapshotted, scored and
\* cleared every wallet it selected.
C18_PassTouchesOnlySelected ==
  [][ \A q \in ScoreProcs :
        /\ (actor'.proc = q /\ actor'.op = "Select")
             => LET picked == { scorer'[q].wallets[k].address :
                                  k \in 1 .. Len(scorer'[q].wallets) }
                IN picked = { a \in DOMAIN wallets :
                                scorer[q].full \/ wallets[a].needs_rescore }
        /\ actor'.proc = q
             => \A a \in DOMAIN wallets \ SelectedBy(q) :
                  /\ wallets'[a] = wallets[a]
                  /\ (a \in DOMAIN scores') = (a \in DOMAIN scores)
                  /\ a \in DOMAIN scores => scores'[a] = scores[a]
                  /\ HistoryOf(score_history', a) = HistoryOf(score_history, a)
        /\ (actor'.proc = q /\ actor'.op = "UpdateWallet")
             => \E a \in SelectedBy(q) :
                  /\ ~ wallets'[a].needs_rescore
                  /\ [wallets' EXCEPT ![a].needs_rescore = TRUE]
                       = [wallets EXCEPT ![a].needs_rescore = TRUE]
                  /\ a \in DOMAIN scores'
                  /\ \E k \in 1 .. Len(scorer[q].results) :
                       /\ scorer[q].results[k].address = a
                       /\ scores'[a].trust_score = scorer[q].results[k].score
                       /\ scores'[a].score_breakdown = scorer[q].results[k].breakdown
                       /\ scores'[a].role = scorer[q].results[k].role
                  /\ \A o \in DOMAIN scores \ {a} :
                       o \in DOMAIN scores' /\ scores'[o] = scores[o]
        /\ (actor'.proc = q /\ actor'.op = "UpdateWallet" /\ scorer'[q].exit = "0")
             => \A a \in SelectedBy(q) :
                  /\ ~ wallets'[a].needs_rescore
                  /\ a \in DOMAIN scores'
                  /\ Len(HistoryOf(score_history', a)) > 0
    ]_vars

\* an incremental pass that selected some but not all wallets has updated
\* the first of them
C18_Witness ==
  \E q \in ScoreProcs :
    /\ ~ scorer[q].full
    /\ scorer[q].pc = "update"
    /\ scorer[q].i + scorer[q].j > 1
    /\ SelectedBy(q) # {}
    /\ SelectedBy(q) # DOMAIN wallets
    /\ \E a \in SelectedBy(q) : ~ wallets[a].needs_rescore /\ a \in DOMAIN scores

\* C19: every wallet with a trust_score written by the scoring engine has a
\* score_history row with the same address and the same trust_score, also
\* after a pass failed or was interrupted.
C19_HistoryCoversScores ==
  \A a \in DOMAIN scores :
    \E k \in 1 .. Len(score_history) :
      /\ score_history[k].address = a
      /\ score_history[k].trust_score = scores[a].trust_score

\* a pass was interrupted or failed after writing some but not all scores
C19_Witness ==
  /\ \E q \in ScoreProcs : scorer[q].exit \in {"1", "killed"}
  /\ \A q \in ScoreProcs : scorer[q].pc = "idle"
  /\ DOMAIN scores # {}
  /\ \E a \in DOMAIN wallets : wallets[a].needs_rescore /\ a \notin DOMAIN scores

Active(q) == scorer[q].pc \in {"aggregate", "history", "update"}

\* C20: two scoring runs never overlap: at most one run is between selecting
\* its wallets and finishing its writes.
C20_SingleWriter ==
  Cardinality({ q \in ScoreProcs : Active(q) }) <= 1

\* the side of a threshold a score lies on
Side(score, t) == IF score < t THEN "below" ELSE "at_or_above"

Sign(n) == IF n < 0 THEN -1 ELSE IF n > 0 THEN 1 ELSE 0

DropAt50 == [id |-> 1, wallet_address |-> NoWallet, event_type |-> "score_drop",
             threshold |-> 50, is_active |-> TRUE, failures |-> 0]
AnyRise == [id |-> 1, wallet_address |-> NoWallet, event_type |-> "score_rise",
            threshold |-> NoThreshold, is_active |-> TRUE, failures |-> 0]

\* C21: a webhook matches a wallet's score change old -> new exactly when its
\* wallet filter is absent or names the wallet, the sign of new - old fits its
\* event type (drop: negative, rise: positive, change: non-zero) and, with a
\* threshold t, old and new lie on opposite sides of t in that direction;
\* old = 85, new = 49 matches {score_drop, threshold 50} and not {score_rise}.
C21_WebhookMatching ==
  [][ (actor'.op = "Match" /\ Head(dispatcher.pending).old_score # NoScore)
        => LET c == Head(dispatcher.pending)
               w == dispatcher.hooks[dispatcher.k]
               sign == Sign(c.new_score - c.old_score)
               before == Side(c.old_score, w.threshold)
               after == Side(c.new_score, w.threshold)
           IN /\ (dispatcher'.pc = "post")
                   <=> /\ w.wallet_address \in {NoWallet, c.address}
                       /\ \/ w.event_type = "score_drop" /\ sign = -1
                          \/ w.event_type = "score_rise" /\ sign = 1
                          \/ w.event_type = "score_change" /\ sign # 0
                       /\ \/ w.threshold = NoThreshold
                          \/ w.event_type = "score_drop"
                               /\ before = "at_or_above" /\ after = "below"
                          \/ w.event_type = "score_rise"
                               /\ before = "below" /\ after = "at_or_above"
                          \/ w.event_type = "score_change" /\ before # after
              /\ Matches(DropAt50, c.address, 85, 49)
              /\ ~ Matches(AnyRise, c.address, 85, 49)
    ]_vars

\* the dispatcher is about to deliver a drop from 85 across a threshold
C21_Witness ==
  /\ dispatcher.pc = "post"
  /\ dispatcher.hooks[dispatcher.k].event_type = "score_drop"
  /\ dispatcher.hooks[dispatcher.k].threshold # NoThreshold
  /\ Head(dispatcher.pending).old_score = 85
  /\ Head(dispatcher.pending).address = "A"

\* a completed pass has changed the wallet's score and the dispatcher has not
\* run since
ChangedByPass(a) ==
  /\ PassCompleted
  /\ dispatcher.pc = "idle"
  /\ a \in UpdatedSince(score_history, dispatcher.mark)
  /\ a \in DOMAIN scores

Posted(id, a, old, new) ==
  \E p \in posts : p.id = id /\ p.address = a /\ p.old_score = old /\ p.new_score = new

C23_TiersAgree ==
  (response.surface \in TierSurfaces /\ request.trust_score \in 0 .. 100)
    => LET s == request.trust_score
       IN /\ response.tier \in {"HIGH", "MEDIUM", "LOW", "MINIMAL"}
          /\ (response.tier = "HIGH") = (s >= 80)
          /\ (response.tier = "MEDIUM") = (50 <= s /\ s < 80)
          /\ (response.tier = "LOW") = (20 <= s /\ s < 50)
          /\ (response.tier = "MINIMAL") = (s < 20)
          /\ \A other \in TierSurfaces : TierOn(other, s) = response.tier

\* the batch endpoint has reported a score on a tier boundary
C23_Witness ==
  /\ response.surface = "batch-scores"
  /\ request.trust_score = 80
  /\ response.tier = "HIGH"

\* 0x followed by exactly 40 hexadecimal characters
IsWalletAddress(str) ==
  /\ Len(str) = 42
  /\ SubSeq(str, 1, 2) = << "0", "x" >>
  /\ { str[i] : i \in 3 .. 42 } \subseteq HexChars

EventPersisted(kind, e) ==
  CASE kind = "x402" -> \E i \in 1..Len(transactions) : transactions[i].tx_hash = e.tx
    [] kind = "mints" -> e.to \in DOMAIN wallets
    [] OTHER -> \E i \in 1..Len(feedback) :
                  feedback[i].tx_hash = e.tx /\ feedback[i].feedback_index = e.feedbackIndex

C25_CursorCoversPersistedEvents ==
  \A s \in Scanners :
    LET logs == ChainLogs(s[1], s[2])
    IN \A i \in 1..Len(logs) :
         (logs[i].block \in scanned[s] /\ logs[i].block <= Cursor(StateIdOf(s)))
           => EventPersisted(s[1], logs[i])


\* C26 (as claimed): once the second attempt of a batch's cursor upsert has
\* failed, the scanner reads no further batch in that run: its next step is
\* never another eth_getLogs request.
C26_FailedCommitEndsTheRun ==
  [][\A p \in Procs :
       (actor = [proc |-> p, op |-> "CommitRetryFail"] /\ actor'.proc = p)
         => actor'.op # "GetLogs"]_vars


\* C27 (as claimed): when a scoring pass ends, every wallet it selected whose
\* row an indexer upsert has changed since the pass read it (tx_count is
\* above the value the pass selected) has needs_rescore = true.
SelectedRow(q, k) == scorer[q].wallets[k]

C27_LateActivityStaysDirty ==
  [][\A q \in ScoreProcs :
       (actor'.proc = q /\ actor'.op = "UpdateWallet" /\ scorer'[q].exit = "0") =>
         \A k \in 1 .. Len(scorer[q].wallets) :
           LET a == SelectedRow(q, k).address
           IN wallets'[a].tx_count > SelectedRow(q, k).tx_count
                => wallets'[a].needs_rescore]_vars


\* C28 (as claimed): processing one USDC Transfer raises tx_count by exactly
\* 1 for its payer and by exactly 1 for its recipient, a wallet first seen in
\* the transfer getting 1, also when both are the same address: the payer's
\* statement adds 1 to the payer, the recipient's statement adds 1 to the
\* recipient and leaves the payer's count, already raised, as it is.
TxCountOf(w, a) == IF a \in DOMAIN w THEN w[a].tx_count ELSE 0

C28_TransferCountsOncePerParty ==
  [][\A p \in Procs :
       (run[p].pc = "upsert" /\ actor'.proc = p /\ actor'.op = "UpsertWallet") =>
         LET t == Head(run[p].transfers)
         IN IF run[p].idx = 1
            THEN TxCountOf(wallets', t.from) = TxCountOf(wallets, t.from) + 1
            ELSE /\ TxCountOf(wallets', t.from) = TxCountOf(wallets, t.from)
                 /\ t.to # t.from =>
                      TxCountOf(wallets', t.to) = TxCountOf(wallets, t.to) + 1]_vars


\* C29 (as claimed): for every transaction hash the payment scanner has
\* processed (its block lies in a batch persisted without a failed insert),
\* transactions holds as many rows with that hash as the receipt has USDC
\* Transfer logs.
RowsOf(txHash, chain) ==
  Cardinality({i \in 1 .. Len(transactions) :
                 transactions[i].tx_hash = txHash /\ transactions[i].chain = chain})

C29_OneRowPerTransfer ==
  \A chain \in Chains :
    \A i \in 1 .. Len(AuthLogs(chain)) :
      LET txHash == AuthLogs(chain)[i].tx
      IN Receipt(txHash).blockNumber \in complete[<< "x402", chain >>]
           => RowsOf(txHash, chain) = Len(FilterTransfers(Receipt(txHash).logs, USDC(chain)))


\* C30 (as claimed): for every indexer process and every method, the number
\* of requests the process has sent (every attempt of withRetry included)
\* never exceeds the count its governor has recorded for that method.
C30_EveryRequestIsRecorded ==
  \A p \in Procs : \A m \in Methods :
    run[p].pc # "idle" => run[p].sent[m] <= gov[p].methodCounts[m]


\* C31 (as claimed): within one run the 80% warning is emitted exactly once,
\* by the trackCU call that first takes the session's usage to or above 80%
\* of the budget (and leaves it below 90%); a trackCU call made when the
\* usage is at or above 80% already emits no further warning.
AtWarning(g) == g.sessionCUs * 10 >= 8 * MONTHLY_CU_BUDGET
AtAbort(g) == g.sessionCUs * 10 >= 9 * MONTHLY_CU_BUDGET

C31_WarningOnce ==
  [][actor'.op = "trackCU" =>
       IF AtWarning(gov[GovProc])
       THEN gov'[GovProc].warnings = gov[GovProc].warnings
       ELSE (AtWarning(gov'[GovProc]) /\ ~AtAbort(gov'[GovProc])) =>
              gov'[GovProc].warnings = gov[GovProc].warnings + 1]_vars


\* C32: shouldStop() is true exactly when the cost of the calls recorded so
\* far (the recorded count of every method times its cost, 50 for a method
\* that is not in the table) is at least 90% of the monthly budget.
RECURSIVE CostOf(_, _)
CostOf(counts, ms) ==
  IF ms = {} THEN 0
  ELSE LET m == CHOOSE x \in ms : TRUE
       IN CU_COSTS(m) * counts[m] + CostOf(counts, ms \ {m})

RecordedCost(g) == CostOf(g.methodCounts, Methods)

C32_StopIffNinetyPercent ==
  shouldStop(gov[GovProc]) <=> RecordedCost(gov[GovProc]) * 10 >= 9 * MONTHLY_CU_BUDGET

\* the flag is set by calls that include a method missing from the cost table
\* and a call with count 2
C32_Witness ==
  /\ shouldStop(gov[GovProc])
  /\ actor.op = "trackCU"
  /\ gov[GovProc].methodCounts["debug_unknown"] = 2
  /\ gov[GovProc].methodCounts["eth_call"] = 1
  /\ RecordedCost(gov[GovProc]) < MONTHLY_CU_BUDGET


\* C33 (as claimed): when an RPC call of a batch has failed on its last
\* attempt, the process writes nothing, makes no further call and exits with
\* code 1.
BatchCalls == {"GetLogs", "FetchReceipt", "FetchTransaction"}

\* the step is a batch call of p that used up its attempts and threw
Exhausted(p) ==
  /\ actor'.proc = p
  /\ actor'.op \in BatchCalls
  /\ run'[p].pc \in {"main", "idle"}
  /\ \E m \in Methods :
       (IF run'[p].pc = "idle" THEN last'.r ELSE run'[p]).sent[m] = run[p].sent[m] + MaxRetries

ConnectionCodes == {"ECONNRESET", "ETIMEDOUT", "ECONNREFUSED"}

RunAfter(p) == IF run'[p].pc = "idle" THEN last'.r ELSE run'[p]

C34_EveryCallIsRetried ==
  [][\A p \in Procs :
       (actor'.proc = p /\ actor'.op \in BatchCalls \cup {"IndexChain", "IndexChainFail"}) =>
         \A m \in Methods :
           LET attempts == RunAfter(p).sent[m] - run[p].sent[m]
               threw == actor'.op = "IndexChainFail"
                        \/ (actor'.op \in BatchCalls /\ run'[p].pc \in {"main", "idle"})
           IN /\ attempts <= MaxRetries
              /\ (attempts > 0 /\ threw /\ IsRetryableRpc(RunAfter(p).err))
                   => attempts = MaxRetries]_vars


\* C35 (as claimed): a statement that fails for one wallet of a scoring pass
\* does not end the pass while other selected wallets still wait for their
\* snapshot or their update.
OthersWaiting(q) ==
  \/ scorer[q].pc = "history" /\ Len(scorer[q].results) > 1
  \/ scorer[q].pc = "update" /\ scorer[q].i + scorer[q].j < Len(scorer[q].results)

C35_FailureSkipsOneWallet ==
  [][\A q \in ScoreProcs :
       (actor'.proc = q /\ actor'.op \in {"HistoryFail", "UpdateFail"} /\ OthersWaiting(q))
         => scorer'[q].pc # "idle"]_vars


\* C36 (as claimed): a wallet's snapshot and its wallet update take effect
\* together or not at all: whenever no pass is running, also after a pass
\* that failed midway, a wallet has score_history rows only if its score was
\* persisted, and a pass adds one row for a score it persists (a wallet
\* scored by a single pass has a single row).
C36_SnapshotWithUpdate ==
  (\A q \in ScoreProcs : scorer[q].pc = "idle") =>
    \A a \in DOMAIN wallets :
      /\ Len(HistoryOf(score_history, a)) > 0 => a \in DOMAIN scores
      /\ Len(HistoryOf(score_history, a)) <= runs


\* C37: once a wallet's erc8004_id is set, no step changes it: neither a
\* further mint to the same address, in the same batch or a later one, nor a
\* payment upsert.
C37_AgentIdIsKept ==
  [][\A a \in DOMAIN wallets :
       wallets[a].erc8004_id # NoId =>
         /\ a \in DOMAIN wallets'
         /\ wallets'[a].erc8004_id = wallets[a].erc8004_id]_vars

\* B, registered with token 1, has been through a payment upsert and through
\* the mint upsert of a later batch that holds its second mint (token 2)
C37_Witness ==
  /\ actor.op = "InsertWallets"
  /\ run[actor.proc].current > 13
  /\ run[actor.proc].batchEnd >= 16
  /\ ChainOf(actor.proc) = "base"
  /\ "B" \in DOMAIN wallets
  /\ wallets["B"].erc8004_id = 1
  /\ wallets["B"].source = "both"


\* C38: when the wrapped call throws an error outside the retryable class
\* (HTTP 400, HTTP 404, a decoding error), withRetry rethrows that error
\* without a further attempt and without sleeping after it: a first call
\* that fails this way is the only attempt and nothing is slept.
NonRetryable == {"HTTP400", "HTTP404", "DECODE"}

FirstNonRetryable(script) ==
  CHOOSE k \in 1 .. MaxRetries + 1 :
    /\ k <= MaxRetries => script[k] \in NonRetryable \cup {"ok"}
    /\ \A j \in 1 .. k - 1 : script[j] \notin NonRetryable \cup {"ok"}

C38_NonRetryableFailsFast ==
  (response.surface = "withRetry") =>
    LET script == request.script
        k == FirstNonRetryable(script)
    IN /\ (k <= MaxRetries /\ script[k] \in NonRetryable) =>
            /\ ~response.ok
            /\ response.err = script[k]
            /\ response.attempts = k
            /\ response.slept = SleptBefore(k)
       /\ script[1] \in NonRetryable => response.attempts = 1 /\ response.slept = 0

\* a second attempt, made after a timeout, threw HTTP 404 and ended the call
C38_Witness ==
  /\ response.surface = "withRetry"
  /\ request.script[1] = "ETIMEDOUT"
  /\ request.script[2] = "HTTP404"
  /\ request.script[3] = "ok"
  /\ response.err = "HTTP404"


\* C39: every getLogs request spans at most 10 blocks: its fromBlock and
\* toBlock satisfy fromBlock <= toBlock <= fromBlock + 9, and toBlock never
\* exceeds the upper bound of the run.
Fetching == {"commit", "receipt", "insert"}

RequestedTo(p) == IF run'[p].pc \in Fetching THEN run'[p].batchEnd ELSE BatchEnd(run[p])

C39_LogWindowAtMostTenBlocks ==
  [][\A p \in Procs :
       (actor'.proc = p /\ actor'.op = "GetLogs") =>
         /\ run[p].current <= RequestedTo(p)
         /\ RequestedTo(p) <= run[p].current + 9
         /\ RequestedTo(p) <= run[p].toBlock
         /\ run[p].toBlock = run[p].to[run[p].kind]]_vars

\* the second request of a run is the last one: its window is cut short at
\* the run's last block
C39_Witness ==
  /\ actor.op = "GetLogs"
  /\ run[actor.proc].pc \in Fetching
  /\ run[actor.proc].batches = 2
  /\ run[actor.proc].batchEnd = run[actor.proc].toBlock
  /\ run[actor.proc].batchEnd < run[actor.proc].current + 9
  /\ run[actor.proc].current = run[actor.proc].from[run[actor.proc].kind] + 10


\* C40: if every RPC and store call returns and the budget flag is never
\* set, a scanner run over the block range [from, to] terminates after
\* exactly ceil((to - from + 1) / 10) batches with last_block = to; each loop
\* iteration strictly increases the current block.
CeilDiv(n, d) == (n + d - 1) \div d

LoopLeft(p) ==
  /\ actor'.proc = p
  /\ actor'.op = "LoopExit"

IterationDone(p) ==
  /\ actor'.proc = p
  /\ actor'.op = "Commit"

C40_ScannerRunTerminates ==
  /\ [][\A p \in Procs :
          /\ LoopLeft(p) =>
               LET k == run[p].kind
               IN /\ run[p].batches = CeilDiv(run[p].to[k] - run[p].from[k] + 1, 10)
                  /\ Cursor(StateIdOf(ScannerOf(p))) = run[p].to[k]
          /\ IterationDone(p) => run'[p].current > run[p].current]_vars
  /\ \A p \in Procs : (run[p].pc = "loop") ~> (run[p].pc = "idle")

\* a payment run over 11 to 19 blocks has ended after its second batch
C40_Witness ==
  /\ actor.op = "LoopExit"
  /\ last.proc = actor.proc
  /\ Program(actor.proc) = "x402"
  /\ last.r.exit = "0"
  /\ last.r.stopped = {}
  /\ last.r.batches = 2
  /\ last.r.to["x402"] - last.r.from["x402"] + 1 \in 11 .. 19
  /\ Cursor(X402StateId(ChainOf(actor.proc))) = last.r.to["x402"]

====
